---- MODULE Spec2Model ----
(***************************************************************************)
(* Model of the LingQ import scripts: the content extractor and the        *)
(* command-line pipeline of lingq_daily_import.py (main) and the headless  *)
(* pipeline of lingq_interactive.py (headless_mode).                       *)
(*                                                                         *)
(* Text is a sequence of characters.  A character is one of the strings    *)
(* below; "W" stands for a block of BlockLen consecutive word characters   *)
(* (one long run of letters), so that texts longer than the 400-character  *)
(* floor of the heuristic stay short sequences.                            *)
(***************************************************************************)
EXTENDS Integers, Sequences, FiniteSets, TLC

\* ------------------------------------------------------------------ bounds
\* Number of word characters one "W" block stands for.
BlockLen == 100
\* Largest number of sibling elements directly under the page body.
MaxTop == 2
\* Largest --min-words value a run is started with.
MaxMinWords == 3
\* Largest number of characters of a raw text handed to clean_text.
MaxRaw == 6
\* Largest number of saves and reads of config files in one behaviour.
MaxOps == 3
\* Largest number of reloads the user asks for in one interactive session.
MaxReloads == 1
\* The navigations of the page by the user in one session.
MaxNavs == 1
\* Number of MP3 files the entry "v1.mp3" of an audio directory stands for.
BlockFiles == 254

\* --------------------------------------------------------------- characters
Space == "sp"
Tab == "tab"
Newline == "nl"
CR == "cr"
FormFeed == "ff"

\* None where a string is expected: a value no text equals.
NoString == <<"#None">>

\* Characters matched by the regex class \w (letters; "W" is a block of them).
WordChars == {"a", "b", "z", "A", "W"}

\* Horizontal whitespace, the class [ \t] of clean_text.
Blanks == {Space, Tab}

\* Characters str.strip() removes.
Whitespace == {Space, Tab, Newline, CR, FormFeed}

\* len() of one character of the model.
CharLen(c) == IF c = "W" THEN BlockLen ELSE 1

\* The characters of a text.
Chars(s) == {s[i] : i \in 1..Len(s)}

RECURSIVE StrLen(_)
\* len(text)
StrLen(s) == IF s = <<>> THEN 0 ELSE CharLen(Head(s)) + StrLen(Tail(s))

RECURSIVE Count(_, _)
\* text.count(c)
Count(s, c) ==
  IF s = <<>> THEN 0
  ELSE (IF Head(s) = c THEN 1 ELSE 0) + Count(Tail(s), c)

RECURSIVE LStrip(_, _)
\* s with its leading characters of set cs removed
LStrip(s, cs) ==
  IF s # <<>> /\ Head(s) \in cs THEN LStrip(Tail(s), cs) ELSE s

RECURSIVE RStrip(_, _)
\* s with its trailing characters of set cs removed
RStrip(s, cs) ==
  IF s # <<>> /\ s[Len(s)] \in cs
    THEN RStrip(SubSeq(s, 1, Len(s) - 1), cs)
    ELSE s

\* str.strip(): leading and trailing whitespace removed
Strip(s) == RStrip(LStrip(s, Whitespace), Whitespace)

\* re.sub(r"\r", "", raw)
RemoveCR(s) == SelectSeq(s, LAMBDA c : c # CR)

RECURSIVE CollapseBlanks(_)
\* re.sub(r"[ \t]+", " ", text): every maximal run of spaces and tabs
\* becomes one space
CollapseBlanks(s) ==
  IF s = <<>> THEN <<>>
  ELSE IF Head(s) \in Blanks
    THEN <<Space>> \o CollapseBlanks(LStrip(s, Blanks))
    ELSE <<Head(s)>> \o CollapseBlanks(Tail(s))

RECURSIVE CollapseNewlines(_)
\* re.sub(r"\n{3,}", "\n\n", text): every maximal run of three or more
\* newlines becomes two; shorter runs stay
CollapseNewlines(s) ==
  IF s = <<>> THEN <<>>
  ELSE IF Head(s) = Newline
    THEN LET rest == LStrip(s, {Newline})
             run == Len(s) - Len(rest)
             kept == IF run >= 3 THEN 2 ELSE run
         IN  [i \in 1..kept |-> Newline] \o CollapseNewlines(rest)
    ELSE <<Head(s)>> \o CollapseNewlines(Tail(s))

\* clean_text that removes the carriage returns last (a mutation)
clean_text_CRLast(raw) == Strip(RemoveCR(CollapseNewlines(CollapseBlanks(raw))))

\* clean_text(raw)
clean_text(raw) == Strip(CollapseNewlines(CollapseBlanks(RemoveCR(raw))))

RECURSIVE WordCount(_)
\* len(re.findall(r"\w+", text)): the number of maximal runs of word
\* characters
WordCount(s) ==
  IF s = <<>> THEN 0
  ELSE IF Head(s) \in WordChars
    THEN 1 + WordCount(LStrip(s, WordChars))
    ELSE WordCount(Tail(s))

\* score_node_text without the paragraph weight (a mutation of the score)
score_node_text_WordsOnly(text) == WordCount(text)

\* score_node_text(text)
score_node_text(text) ==
  LET paragraphs == Count(text, Newline) + 1
      word_count == WordCount(text)
  IN  word_count + (paragraphs * 4)

\* ---------------------------------------------------------------- documents
\* A parsed page is a tree.  A text node is [tag |-> "#text", text |-> s];
\* an element is [tag |-> t, kids |-> <<...>>]; the soup itself is the
\* element with tag "[document]".
Txt(s) == [tag |-> "#text", text |-> s, kids |-> <<>>]

El(t, ks) == [tag |-> t, text |-> <<>>, kids |-> ks]

\* None where a node is expected.
NoNode == El("#None", <<>>)

RECURSIVE Flatten(_)
\* the concatenation of a sequence of sequences
Flatten(ss) == IF ss = <<>> THEN <<>> ELSE Head(ss) \o Flatten(Tail(ss))

RECURSIVE Join(_, _)
\* sep.join(strings)
Join(strings, sep) ==
  IF strings = <<>> THEN <<>>
  ELSE IF Len(strings) = 1 THEN Head(strings)
  ELSE Head(strings) \o sep \o Join(Tail(strings), sep)

RECURSIVE Strings(_)
\* the text nodes below a node, in document order
Strings(n) ==
  IF n.tag = "#text" THEN <<n.text>>
  ELSE Flatten([i \in 1..Len(n.kids) |-> Strings(n.kids[i])])

\* node.get_text(sep)
get_text(n, sep) == Join(Strings(n), sep)

RECURSIVE Descendants(_)
\* the nodes below a node, in document order
Descendants(n) ==
  Flatten([i \in 1..Len(n.kids) |-> <<n.kids[i]>> \o Descendants(n.kids[i])])

\* soup.select(tag) for a type selector: the elements with that tag, in
\* document order
select(soup, t) == SelectSeq(Descendants(soup), LAMBDA k : k.tag = t)

\* soup.<tag>: the first element with that tag, or None
FirstTag(soup, t) ==
  LET found == select(soup, t) IN IF found = <<>> THEN NoNode ELSE Head(found)

RECURSIVE TagString(_)
\* tag.string: the text of a single text child, through single element
\* children; None when the tag has no child or several
TagString(n) ==
  IF n.tag = "#text" THEN n.text
  ELSE IF Len(n.kids) = 1 THEN TagString(n.kids[1])
  ELSE NoString

\* The elements extract_content removes before any text is read.
StripTags == {"script", "style", "noscript", "header", "footer", "nav", "aside"}

\* Decompose that removes only the listed elements directly under the node
\* (a mutation: nested ones survive)
Decompose_Shallow(n) ==
  [n EXCEPT !.kids = SelectSeq(n.kids, LAMBDA k : k.tag \notin StripTags)]

RECURSIVE DecomposeRec(_)
DecomposeRec(n) ==
  LET kept == SelectSeq(n.kids, LAMBDA k : k.tag \notin StripTags)
  IN  [n EXCEPT !.kids = [i \in 1..Len(kept) |-> DecomposeRec(kept[i])]]

\* for tag in soup([...]): tag.decompose(): the tree without the listed
\* elements, at every depth
Decompose(n) == DecomposeRec(n)

\* The character floor of a heuristic candidate.
FloorLen == 400

\* The floor test with >= in place of > (a mutation)
Qualifies_AtLeast(text) == StrLen(text) >= FloorLen

\* len(text) > 400
Qualifies(text) == StrLen(text) > FloorLen

\* The landmark selectors, in the order the heuristic scans them.
LandmarkSelectors == <<"article", "main", "section">>

\* The cleaned texts of the landmark elements of a stripped soup, in scan
\* order: selector by selector, document order within a selector
LandmarkTexts(soup) ==
  Flatten([s \in 1..Len(LandmarkSelectors) |->
    LET nodes == select(soup, LandmarkSelectors[s])
    IN  [i \in 1..Len(nodes) |-> clean_text(get_text(nodes[i], <<Newline>>))]])

\* candidates: (score, text) of every landmark text above the floor
Candidates(soup) ==
  LET texts == SelectSeq(LandmarkTexts(soup), Qualifies)
  IN  [i \in 1..Len(texts) |->
        [score |-> score_node_text(texts[i]), text |-> texts[i]]]

\* max(candidates, key=lambda item: item[0]): the first item of maximal score
MaxByScore(cands) ==
  LET best == CHOOSE i \in 1..Len(cands) :
                /\ \A j \in 1..Len(cands) : cands[j].score <= cands[i].score
                /\ \A j \in 1..(i - 1) : cands[j].score < cands[i].score
  IN  cands[best]

\* title: the page <title> string, stripped, when present and non-empty,
\* else the fallback
PageTitle(soup, fallback_title) ==
  LET t == FirstTag(soup, "title")
  IN  IF t # NoNode /\ TagString(t) # NoString /\ TagString(t) # <<>>
        THEN Strip(TagString(t))
        ELSE fallback_title

\* extract_content(html, fallback_title)
extract_content(html, fallback_title) ==
  LET soup == Decompose(html)
      title == PageTitle(soup, fallback_title)
      candidates == Candidates(soup)
      b == FirstTag(soup, "body")
      body == IF b # NoNode THEN b ELSE soup
  IN  IF candidates = <<>>
        THEN [title |-> title, text |-> clean_text(get_text(body, <<Newline>>))]
        ELSE [title |-> title, text |-> MaxByScore(candidates).text]

\* -------------------------------------------------------------- page inputs
\* Texts of the pages the model draws.  With BlockLen = 100:
\*   TShort  "a b"                     3 chars, 2 words
\*   TLines  "a\na\na\na"              7 chars, 4 words, 4 paragraphs
\*   TEdge   4 blocks                  4 * BlockLen chars, 1 word
\*   TLong   5 blocks, space-separated 5 * BlockLen + 4 chars, 5 words
\*   TMono   5 blocks                  5 * BlockLen chars, 1 word
\*   TPara   "WW\nWW\nW"               5 * BlockLen + 2 chars, 3 words,
\*                                     3 paragraphs
\*   TNav    "z z"                     text of a navigation element
\*   TNavLong "z WW\nWW\nW"            a long text inside a navigation element
TShort == <<"a", Space, "b">>

TLines == <<"a", Newline, "a", Newline, "a", Newline, "a">>

TEdge == <<"W", "W", "W", "W">>

TLong == <<"W", Space, "W", Space, "W", Space, "W", Space, "W">>

TMono == <<"W", "W", "W", "W", "W">>

TPara == <<"W", "W", Newline, "W", "W", Newline, "W">>

TNav == <<"z", Space, "z">>

TNavLong == <<"z", Space, "W", "W", Newline, "W", "W", Newline, "W">>

ContentTexts == {TShort, TLines, TEdge, TLong, TMono, TPara}

\* Elements holding one text.
LeafElements ==
  {El("article", <<Txt(x)>>) : x \in ContentTexts}
    \cup {El("section", <<Txt(x)>>) : x \in {TShort, TMono, TPara}}
    \cup {El("div", <<Txt(x)>>) : x \in {TShort, TLong}}
    \cup {El("nav", <<Txt(TNav)>>)}

\* Elements holding a text and a nested element.
NestedElements ==
  {El(t, <<Txt(TLong), inner>>) :
     t \in {"article", "div"},
     inner \in {El("nav", <<Txt(TNav)>>), El("aside", <<Txt(TNavLong)>>),
                El("section", <<Txt(TPara)>>), El("section", <<Txt(TShort)>>)}}
    \cup {El("nav", <<El("article", <<Txt(TNavLong)>>)>>)}

Elements == LeafElements \cup NestedElements

\* Page <title> contents: absent, blank, padded.
NoTitle == <<>>

TitleKids == {NoTitle, <<Txt(<<Space>>)>>, <<Txt(<<Space, "A", Space, "b", Space>>)>>}

\* A page with <html>, <head> and <body>.
FullPage(titleKids, kids) ==
  El("[document]", <<El("html", <<
      El("head", IF titleKids = NoTitle THEN <<>> ELSE <<El("title", titleKids)>>),
      El("body", kids)>>)>>)

\* A fragment: elements with no <html> or <body> around them.
Fragment(kids) == El("[document]", kids)

\* A page with an empty <title> element.
EmptyTitlePage(kids) ==
  El("[document]", <<El("html", <<
      El("head", <<El("title", <<>>)>>), El("body", kids)>>)>>)

\* The page of one shape around the elements kids.
PageOf(shape, kids) ==
  CASE shape = "full" -> FullPage(NoTitle, kids)
    [] shape = "fragment" -> Fragment(kids)
    [] shape = "blank-title" -> FullPage(<<Txt(<<Space>>)>>, kids)
    [] shape = "padded-title" -> FullPage(<<Txt(<<Space, "A", Space, "b", Space>>)>>, kids)
    [] shape = "empty-title" -> EmptyTitlePage(kids)

\* The shapes drawn for n top-level elements: titled pages only around one.
Shapes(n) ==
  IF n = 1
    THEN {"full", "fragment", "blank-title", "padded-title", "empty-title"}
    ELSE {"full", "fragment"}

\* Fallback titles handed to extract_content.
FallbackTitles == {<<"b">>}

NoResult == [title |-> NoString, text |-> NoString]

\* Pages a pipeline run may be served: no text at all; a titled page of
\* two words; an article of three words beside a navigation bar; a fragment
\* of four words; two articles, one with a nested navigation bar.
PipelinePages ==
  { FullPage(NoTitle, <<El("div", <<>>)>>),
    FullPage(<<Txt(<<Space, "A", Space, "b", Space>>)>>, <<El("div", <<Txt(TShort)>>)>>),
    FullPage(NoTitle, <<El("nav", <<Txt(TNav)>>), El("article", <<Txt(TPara)>>)>>),
    Fragment(<<El("section", <<Txt(TLines)>>)>>),
    FullPage(NoTitle, <<El("article", <<Txt(TLong), El("nav", <<Txt(TNav)>>)>>),
                        El("article", <<Txt(TPara)>>)>>) }

\* ------------------------------------------------------------------ titles
\* str.lower() on one character
Lower(c) == IF c = "A" THEN "a" ELSE c

\* Characters of the class [a-z0-9].
SlugChars == {"a", "b", "z", "w", "8"}

RECURSIVE Dashify(_)
\* re.sub(r"[^a-z0-9]+", "-", value): every maximal run of other characters
\* becomes one dash
Dashify(s) ==
  IF s = <<>> THEN <<>>
  ELSE IF Head(s) \in SlugChars
    THEN <<Head(s)>> \o Dashify(Tail(s))
    ELSE <<"-">> \o Dashify(LStrip(s, (Chars(s) \ SlugChars)))

\* slugify(value)
slugify(value) ==
  LET lowered == Strip([i \in 1..Len(value) |-> Lower(value[i])])
      dashed == Dashify(lowered)
      trimmed == RStrip(LStrip(dashed, {"-"}), {"-"})
  IN  IF trimmed = <<>> THEN <<"l", "e", "s", "s", "o", "n">> ELSE trimmed

\* The longest title slug kept in an artifact name.
SlugMax == 80

\* s[:n]
Prefix(s, n) == SubSeq(s, 1, IF Len(s) < n THEN Len(s) ELSE n)

\* derive_default_title(url): built from the last path segment, the host and
\* the date; the model's one URL gives the title "A b (b)".
derive_default_title(url) == <<"A", Space, "b", Space, "(", "b", ")">>

\* Absent optional value.
Absent == <<>>

\* build_lingq_payload(title, text, collection); collection is Absent or <<id>>
build_lingq_payload(title, text, collection) ==
  [title |-> title, text |-> text, share_status |-> "private", collection |-> collection]

\* ------------------------------------------------- the imported module's API
\* Parameters fetch_html accepts.
fetch_html_params == {"url", "timeout"}

\* Parameters extract_content accepts.
extract_content_params == {"html", "fallback_title"}

\* Names lingq_daily_import defines at module level.
ldi_names ==
  {"USER_AGENT", "ExtractionResult", "slugify", "fetch_html", "clean_text",
   "score_node_text", "extract_content", "build_lingq_payload",
   "lingq_import_url", "upload_to_lingq", "derive_default_title",
   "parse_args", "main"}

\* A call with these keyword arguments binds; otherwise Python raises
\* TypeError (unexpected keyword argument).
Binds(params, kwargs) == kwargs \subseteq params

\* ------------------------------------------------------------------- state
VARIABLES
  xin,        \* the arguments of a call of extract_content: html, fallback_title
  xout,       \* what the call returned, NoResult before it returns
  xagain,     \* what a second call on the same arguments returned
  cin,        \* the argument of a call of clean_text
  cout,       \* what clean_text returned, NoString before it returns
  cagain,     \* what clean_text returned when applied to its own output
  fin,        \* the two URLs a config filename is derived from
  fpy,        \* the filenames _config_path_for_url derived, NoNames before
  fjs,        \* the filenames fileForUrl derived, NoNames before
  disk,       \* the config files of the directory: path -> text, NoFile if none
  ops,        \* the saves and reads of config files so far, with their outcome
  sess,       \* the interactive session: controller, contexts, window, result
  cli,        \* a headless start of lingq_interactive.py: arguments, config, outcome
  audio,      \* an audio batch run: directory, arguments, position, log, outcome
  jobs,       \* the control panel: _jobs, its lock, threads, polls, the page's form
  picker,     \* the overlay's selection on the page: candidates, selectors, clicks
  world,      \* the environment of a run: the site, the LingQ API, os.environ
  pc,         \* where the run is: idle, fetch, extract, validate, write, upload, done
  run,        \* the locals a run sets at its start, from its arguments
  html,       \* the fetched page, NoNode before the fetch returns
  browser,    \* the scripted fetch's browser: launched, closed, page operations
  extracted,  \* the ExtractionResult, NoResult before extraction returns
  lesson,     \* title, text and word_count after validation's reads
  out_dir,    \* whether the run has created the output folder
  files,      \* the artifact files the run has written: name and content
  requests,   \* the network requests issued, in order
  stages,     \* the stages entered, in order, each with its outcome
  rc,         \* the return code, NoRc before the run returns
  err         \* the error the run printed or raised, "" when none

\* The variables of the pipeline runs.
pvars == <<world, pc, run, html, browser, extracted, lesson, out_dir, files, requests,
           stages, rc, err>>

\* The variables of the calls of extract_content.
exvars == <<xin, xout, xagain>>

\* The variables of the calls of clean_text.
clvars == <<cin, cout, cagain>>

\* The variables of the filename derivations.
fnvars == <<fin, fpy, fjs>>

\* The variables of the config store.
stvars == <<disk, ops>>

\* The variables of the other command-line runs.
mnvars == <<cli, audio>>

\* The variables of the control panel's jobs and of the overlay's picker.
webvars == <<jobs, picker>>

\* The variables of the function calls, the config store, the interactive
\* session and the other command-line runs, which a pipeline run leaves
\* alone.
hvars == <<exvars, clvars, fnvars, stvars, sess, mnvars, webvars>>

\* What a call of extract_content, and of clean_text, leaves alone.
restEx == <<pvars, clvars, fnvars, stvars, sess, mnvars, webvars>>

restCl == <<pvars, exvars, fnvars, stvars, sess, mnvars, webvars>>

restFn == <<pvars, exvars, clvars, stvars, sess, mnvars, webvars>>

restSt == <<pvars, exvars, clvars, fnvars, sess, mnvars, webvars>>

\* What the interactive session leaves alone, the config files apart.
restSe == <<pvars, exvars, clvars, fnvars, ops, mnvars, webvars>>

\* What a headless start leaves alone, the config files apart.
restCli == <<pvars, exvars, clvars, fnvars, ops, sess, audio, webvars>>

\* What an audio batch run leaves alone.
restAu == <<pvars, exvars, clvars, fnvars, stvars, sess, cli, webvars>>

\* What a job's thread and its polls leave alone.
restJob == <<pvars, exvars, clvars, fnvars, stvars, sess, mnvars, picker>>

\* What the control panel's endpoints leave alone, the config files and the
\* jobs apart.
restPanel == <<pvars, exvars, clvars, fnvars, sess, mnvars, picker>>

\* What the overlay's picker leaves alone.
restPick == <<pvars, exvars, clvars, fnvars, stvars, sess, mnvars, jobs>>

vars == <<hvars, pvars>>

NoRc == -1

NoRun == [entry |-> "", url |-> "", upload |-> FALSE, min_words |-> 0,
          title_ovr |-> <<>>, title_seed |-> <<>>, api_key |-> "",
          selectors |-> <<>>, source_lang |-> "", pre_steps |-> <<>>,
          accept_lang |-> "", collection |-> Absent]

\* No artifact written.
NoFiles ==
  [txt |-> [name |-> <<>>, content |-> NoString],
   payload |-> [name |-> <<>>, content |-> build_lingq_payload(NoString, NoString, Absent)]]

\* No filename derived yet.
NoNames == <<NoString, NoString>>

NoLesson == [title |-> NoString, text |-> NoString, word_count |-> 0]

\* No browser launched.
NoBrowser == [launched |-> FALSE, closed |-> FALSE, ops |-> <<>>, warnings |-> <<>>]

\* No run has started.
PipelineIdle ==
  /\ pc = "idle"
  /\ run = NoRun
  /\ html = NoNode
  /\ browser = NoBrowser
  /\ extracted = NoResult
  /\ lesson = NoLesson
  /\ out_dir = FALSE
  /\ files = NoFiles
  /\ requests = <<>>
  /\ stages = <<>>
  /\ rc = NoRc
  /\ err = ""

\* No call of extract_content is under way.
ExtractIdle ==
  /\ xin = [html |-> NoNode, fallback_title |-> <<>>]
  /\ xout = NoResult
  /\ xagain = NoResult

\* No call of clean_text is under way.
CleanIdle ==
  /\ cin = <<>>
  /\ cout = NoString
  /\ cagain = NoString

\* No filename derivation is under way.
NamesIdle ==
  /\ fin = <<>>
  /\ fpy = NoNames
  /\ fjs = NoNames

\* No config file is stored and none was saved or read.
StoreIdle ==
  /\ disk = <<>>
  /\ ops = <<>>

\* The inputs of the sidebar as its markup has them, and no selector.
NoForm ==
  [api_key |-> "", language |-> "en", browser_language |-> "", title |-> "",
   collection_id |-> "", selectors |-> <<>>]

\* No page: nothing is open and no script has run.
NoWindow ==
  [open |-> FALSE, active |-> FALSE, done |-> FALSE, reload |-> FALSE,
   config |-> <<>>, href |-> "", form |-> NoForm]

\* No interactive session has been started.
NoSession ==
  [state |-> "Idle", trace |-> <<>>, url |-> "", start |-> "", working |-> <<>>,
   initial |-> <<>>, contexts |-> <<>>, browser |-> "none", window |-> NoWindow,
   partial |-> <<>>, config |-> <<>>, outcome |-> "", wrote |-> FALSE,
   reloads |-> 0, navs |-> 0, requested |-> <<>>, exited |-> <<>>,
   found |-> <<>>, closed |-> FALSE, edited |-> FALSE,
   main |-> [returned |-> FALSE, headless |-> FALSE, rc |-> NoRc]]

SessionIdle == sess = NoSession

\* No headless start of lingq_interactive.py is under way.
NoCli ==
  [pc |-> "idle", config_arg |-> <<>>, candidates |-> <<>>, config_path |-> <<>>,
   read |-> <<>>, config |-> <<>>, ran |-> FALSE, rc |-> NoRc, err |-> ""]

\* The arguments of an audio batch run before it is started.
NoAudioArgs == [dry_run |-> FALSE, transcribe |-> FALSE, api_key |-> "", start_track |-> 1]

\* No audio batch run is under way.
NoAudio ==
  [pc |-> "idle", dir |-> [exists |-> FALSE, names |-> {}], args |-> NoAudioArgs,
   mp3_files |-> <<>>, pad |-> 2, i |-> 0, failures |-> 0, log |-> <<>>,
   titles |-> <<>>, rc |-> NoRc, err |-> "", status |-> NoRc]

\* No other command-line run is under way.
\* _jobs is empty, its lock is free and nobody polls.
NoJobs ==
  [table |-> <<>>, threads |-> <<>>, lock |-> "free", polls |-> <<>>,
   page |-> [open |-> FALSE, currentFile |-> <<>>, form |-> [url |-> ""] @@ NoForm]]

\* The overlay is on no page.
NoPicker == [on |-> FALSE, dom |-> <<>>, selectors |-> <<>>, shown |-> {}, status |-> ""]

\* The control panel has started no job and the overlay is on no page.
WebIdle ==
  /\ jobs = NoJobs
  /\ picker = NoPicker

ToolsIdle ==
  /\ cli = NoCli
  /\ audio = NoAudio
  /\ WebIdle

\* The world of a specification that runs no pipeline.
NoWorld ==
  [up |-> TRUE, page |-> FullPage(NoTitle, <<El("div", <<>>)>>), LINGQ_API_KEY |-> ""]

Worlds ==
  [up : BOOLEAN, page : PipelinePages, LINGQ_API_KEY : {"", "envkey"}]

\* ------------------------------------------------- extraction, as a function
InitExtract ==
  /\ \E n \in 1..MaxTop : \E kids \in [1..n -> Elements] :
       \E shape \in Shapes(n), fallback \in FallbackTitles :
         xin = [html |-> PageOf(shape, kids), fallback_title |-> fallback]
  /\ xout = NoResult
  /\ xagain = NoResult
  /\ CleanIdle
  /\ NamesIdle
  /\ StoreIdle
  /\ SessionIdle
  /\ ToolsIdle
  /\ world = NoWorld
  /\ PipelineIdle

\* one call extract_content(html, fallback_title)
CallExtract ==
  /\ xout = NoResult
  /\ xout' = extract_content(xin.html, xin.fallback_title)
  /\ UNCHANGED <<xin, xagain, restEx>>

\* max that returns the last item of maximal score (a mutation)
MaxByScore_Last(cands) ==
  LET best == CHOOSE i \in 1..Len(cands) :
                /\ \A j \in 1..Len(cands) : cands[j].score <= cands[i].score
                /\ \A j \in (i + 1)..Len(cands) : cands[j].score < cands[i].score
  IN  cands[best]

\* A second call whose max breaks ties the other way (a mutation)
CallExtractAgain_LastMax ==
  /\ xout # NoResult
  /\ xagain = NoResult
  /\ LET soup == Decompose(xin.html)
         candidates == Candidates(soup)
     IN  xagain' = IF candidates = <<>>
                     THEN extract_content(xin.html, xin.fallback_title)
                     ELSE [title |-> PageTitle(soup, xin.fallback_title),
                           text |-> MaxByScore_Last(candidates).text]
  /\ UNCHANGED <<xin, xout, restEx>>

\* a second call extract_content(html, fallback_title) on the same arguments
CallExtractAgain ==
  /\ xout # NoResult
  /\ xagain = NoResult
  /\ xagain' = extract_content(xin.html, xin.fallback_title)
  /\ UNCHANGED <<xin, xout, restEx>>

NextExtract == CallExtract \/ CallExtractAgain

SpecExtract == InitExtract /\ [][NextExtract]_vars

\* ------------------------------------------------- clean_text, as a function
\* The characters a raw text is drawn from.
RawChars == {Space, Tab, Newline, CR, FormFeed, "a"}

\* The raw texts of at most n characters.
RawTexts(n) == UNION {[1..k -> RawChars] : k \in 0..n}

InitClean ==
  /\ cin \in RawTexts(MaxRaw)
  /\ cout = NoString
  /\ cagain = NoString
  /\ ExtractIdle
  /\ NamesIdle
  /\ StoreIdle
  /\ SessionIdle
  /\ ToolsIdle
  /\ world = NoWorld
  /\ PipelineIdle

\* one call clean_text(raw)
CallClean ==
  /\ cout = NoString
  /\ cout' = clean_text(cin)
  /\ UNCHANGED <<cin, cagain, restCl>>

\* clean_text applied to a text clean_text returned, as main does to
\* extracted.text
CallCleanAgain ==
  /\ cout # NoString
  /\ cagain = NoString
  /\ cagain' = clean_text(cout)
  /\ UNCHANGED <<cin, cout, restCl>>

NextClean == CallClean \/ CallCleanAgain

SpecClean == InitClean /\ [][NextClean]_vars

\* ------------------------------------------------------- config filenames
\* A URL, by its parts: scheme://userinfo@host:port/path; an absent part is
\* the empty sequence.
Url(scheme, userinfo, host, port, path) ==
  [scheme |-> scheme, userinfo |-> userinfo, host |-> host, port |-> port,
   path |-> path]

\* urlparse(url).netloc: everything between "//" and the path, userinfo and
\* port included
netloc(url) ==
  (IF url.userinfo = <<>> THEN <<>> ELSE url.userinfo \o <<"@">>)
    \o url.host
    \o (IF url.port = <<>> THEN <<>> ELSE <<":">> \o url.port)

\* new URL(url).hostname: the host alone, in lower case
hostname(url) == [i \in 1..Len(url.host) |-> Lower(url.host[i])]

\* re.sub(r"^www\.", "", host), String.replace(/^www\./, "")
StripWww(host) ==
  IF Len(host) >= 4 /\ SubSeq(host, 1, 4) = <<"w", "w", "w", ".">>
    THEN SubSeq(host, 5, Len(host))
    ELSE host

\* _config_path_for_url(url), of lingq_interactive.py
_config_path_for_url(url) ==
  LET lowered == [i \in 1..Len(netloc(url)) |-> Lower(netloc(url)[i])]
      host == StripWww(lowered)
      dashed == Dashify(host)
      stripped == RStrip(LStrip(dashed, {"-"}), {"-"})
      slug == IF stripped = <<>> THEN <<"site">> ELSE stripped
  IN  <<"lingq_">> \o slug \o <<".json">>

\* String.replace(/^-|-$/g, ""): one leading and one trailing dash removed
TrimOneDash(s) ==
  LET t == IF s # <<>> /\ Head(s) = "-" THEN Tail(s) ELSE s
  IN  IF t # <<>> /\ t[Len(t)] = "-" THEN SubSeq(t, 1, Len(t) - 1) ELSE t

\* fileForUrl(url), of the control panel's page
fileForUrl(url) ==
  LET host == StripWww(hostname(url))
      trimmed == TrimOneDash(Dashify(host))
      slug == IF trimmed = <<>> THEN <<"site">> ELSE trimmed
  IN  <<"lingq_">> \o slug \o <<".json">>

\* The hosts, in the spellings a URL may give them.
Hosts ==
  { <<"a", ".", "b">>, <<"A", ".", "b">>, <<"w", "w", "w", ".", "a", ".", "b">>,
    <<"w", "w", "w", ".", "A", ".", "b">>, <<"b", ".", "a">>, <<"b", "-", "a">> }

\* The URLs a filename is derived from.
Urls ==
  { Url(scheme, userinfo, host, port, path) :
      scheme \in {"https", "http"}, userinfo \in {<<>>, <<"z">>}, host \in Hosts,
      port \in {<<>>, <<"8">>}, path \in {<<"/", "a">>} }

InitNames ==
  /\ fin \in Urls \X Urls
  /\ fpy = NoNames
  /\ fjs = NoNames
  /\ ExtractIdle
  /\ CleanIdle
  /\ StoreIdle
  /\ SessionIdle
  /\ ToolsIdle
  /\ world = NoWorld
  /\ PipelineIdle

\* _config_path_for_url on each of the two URLs
CallConfigPath ==
  /\ fpy = NoNames
  /\ fpy' = <<_config_path_for_url(fin[1]), _config_path_for_url(fin[2])>>
  /\ UNCHANGED <<fin, fjs, restFn>>

\* fileForUrl on each of the two URLs
CallFileForUrl ==
  /\ fjs = NoNames
  /\ fjs' = <<fileForUrl(fin[1]), fileForUrl(fin[2])>>
  /\ UNCHANGED <<fin, fpy, restFn>>

NextNames == CallConfigPath \/ CallFileForUrl

SpecNames == InitNames /\ [][NextNames]_vars

\* ------------------------------------------------------------ config store
\* Python values of a config: None, a str, an int (by its digits), a list,
\* a dict.
PyNone == [t |-> "none", v |-> <<>>]

PyStr(str) == [t |-> "str", v |-> <<str>>]

PyInt(digits) == [t |-> "int", v |-> <<digits>>]

PyList(items) == [t |-> "list", v |-> items]

PyDict(items) == [t |-> "dict", v |-> items]

\* One item of a dict; a dict is the sequence of its items, keys distinct.
Item(k, val) == [k |-> k, val |-> val]

\* dict equality: the same keys with the same values, in any order
SameDict(c, d) == {c[i] : i \in 1..Len(c)} = {d[i] : i \in 1..Len(d)}

\* d[k] = val on a dict: the value replaced in place, or the item appended
SetItem(d, k, val) ==
  IF \E i \in 1..Len(d) : d[i].k = k
    THEN [i \in 1..Len(d) |-> IF d[i].k = k THEN Item(k, val) ELSE d[i]]
    ELSE Append(d, Item(k, val))

\* JSON text is a sequence of tokens: the punctuation, null, and for a
\* string or a number a marker followed by its content.
RECURSIVE DumpValue(_)
\* json.dumps of one value
DumpValue(val) ==
  CASE val.t = "none" -> <<"null">>
    [] val.t = "str" -> <<"\"">> \o val.v
    [] val.t = "int" -> <<"#">> \o val.v
    [] val.t = "list" ->
         <<"[">> \o Join([i \in 1..Len(val.v) |-> DumpValue(val.v[i])], <<",">>)
           \o <<"]">>
    [] val.t = "dict" ->
         <<"{">>
           \o Join([i \in 1..Len(val.v) |->
                      <<"\"", val.v[i].k, ":">> \o DumpValue(val.v[i].val)], <<",">>)
           \o <<"}">>

\* json.dumps(config, indent=2, ensure_ascii=False)
json_dumps(config) ==
  <<"{">>
    \o Join([i \in 1..Len(config) |->
               <<"\"", config[i].k, ":">> \o DumpValue(config[i].val)], <<",">>)
    \o <<"}">>

RECURSIVE ParseValue(_, _)
RECURSIVE ParseItems(_, _, _)
RECURSIVE ParseObject(_, _, _)
\* the value that starts at token i, and the position after it
ParseValue(text, i) ==
  CASE text[i] = "null" -> [val |-> PyNone, next |-> i + 1]
    [] text[i] = "\"" -> [val |-> PyStr(text[i + 1]), next |-> i + 2]
    [] text[i] = "#" -> [val |-> PyInt(text[i + 1]), next |-> i + 2]
    [] text[i] = "[" -> ParseItems(text, i + 1, <<>>)
    [] text[i] = "{" -> ParseObject(text, i + 1, <<>>)

\* the rest of a list whose items so far are acc
ParseItems(text, i, acc) ==
  IF text[i] = "]" THEN [val |-> PyList(acc), next |-> i + 1]
  ELSE IF text[i] = "," THEN ParseItems(text, i + 1, acc)
  ELSE LET item == ParseValue(text, i)
       IN  ParseItems(text, item.next, Append(acc, item.val))

\* the rest of a nested object whose members so far are acc
ParseObject(text, i, acc) ==
  IF text[i] = "}" THEN [val |-> PyDict(acc), next |-> i + 1]
  ELSE IF text[i] = "," THEN ParseObject(text, i + 1, acc)
  ELSE LET member == ParseValue(text, i + 3)
       IN  ParseObject(text, member.next, SetItem(acc, text[i + 1], member.val))

RECURSIVE ParseMembers(_, _, _)
\* the rest of an object whose members so far are acc
ParseMembers(text, i, acc) ==
  IF text[i] = "}" THEN acc
  ELSE IF text[i] = "," THEN ParseMembers(text, i + 1, acc)
  ELSE LET member == ParseValue(text, i + 3)
       IN  ParseMembers(text, member.next, SetItem(acc, text[i + 1], member.val))

\* json.loads(text) of an object
json_loads(text) == ParseMembers(text, 2, <<>>)

\* No file under a path.
NoFile == <<"#missing">>

\* What write_text puts under a path: the dump and a newline.
FileOf(config) == json_dumps(config) \o <<Newline>>

\* _safe(filename): re.match of ^lingq_[a-z0-9][a-z0-9\-]*\.json$, where $
\* also matches before one trailing newline
_safe(filename) ==
  LET name == IF filename # <<>> /\ filename[Len(filename)] = Newline
                THEN SubSeq(filename, 1, Len(filename) - 1)
                ELSE filename
  IN  /\ Len(name) >= 3
      /\ name[1] = "lingq_"
      /\ name[Len(name)] = ".json"
      /\ name[2] \in SlugChars
      /\ \A i \in 3..(Len(name) - 1) : name[i] \in SlugChars \cup {"-"}

\* The config files of the model's directory, and a name the control panel
\* refuses.
SiteA == <<"lingq_", "a", "-", "b", ".json">>

SiteB == <<"lingq_", "b", "-", "a", ".json">>

Unsafe == <<"lingq_", "-", "a", ".json">>

StorePaths == {SiteA, SiteB}

\* The configs saved: every field set; few fields, in another order, with
\* None and empty values; no field at all.
ConfigFull ==
  << Item("url", PyStr("https://a.b/a")),
     Item("selectors", PyList(<<PyStr("div"), PyStr("null")>>)),
     Item("api_key", PyStr("k")),
     Item("title", PyStr("]")),
     Item("collection_id", PyInt("7")) >>

ConfigLean ==
  << Item("api_key", PyStr("")),
     Item("url", PyStr("https://a.b/a")),
     Item("selectors", PyList(<<>>)),
     Item("collection_id", PyNone) >>

ConfigEmpty == <<>>

StoreConfigs == {ConfigFull, ConfigLean, ConfigEmpty}

\* One save or read: what was asked and what came of it.
Op(op, filename, config, status, body) ==
  [op |-> op, filename |-> filename, config |-> config, status |-> status,
   body |-> body]

InitStore ==
  /\ disk \in [StorePaths -> {NoFile, FileOf(ConfigFull)}]
  /\ ops = <<>>
  /\ ExtractIdle
  /\ CleanIdle
  /\ NamesIdle
  /\ SessionIdle
  /\ ToolsIdle
  /\ world = NoWorld
  /\ PipelineIdle

\* A save that patches the stored config with the fields sent (a mutation)
api_save_site_Patch ==
  /\ Len(ops) < MaxOps
  /\ \E name \in DOMAIN disk \cup {Unsafe}, config \in StoreConfigs :
       LET filename == Strip(name)
           RECURSIVE Patch(_, _)
           Patch(d, c) == IF c = <<>> THEN d
                          ELSE Patch(SetItem(d, Head(c).k, Head(c).val), Tail(c))
       IN  IF ~_safe(filename)
             THEN /\ ops' = Append(ops, Op("save", filename, config, "400", <<>>))
                  /\ UNCHANGED disk
             ELSE /\ disk' = [disk EXCEPT ![filename] =
                         IF disk[filename] = NoFile THEN FileOf(config)
                         ELSE FileOf(Patch(json_loads(disk[filename]), config))]
                  /\ ops' = Append(ops, Op("save", filename, config, "200", <<>>))
  /\ UNCHANGED restSt

\* POST /api/site: the body's config written whole under the body's
\* filename, when the filename is safe
api_save_site ==
  /\ Len(ops) < MaxOps
  /\ \E name \in DOMAIN disk \cup {Unsafe}, config \in StoreConfigs :
       LET filename == Strip(name)
       IN  IF ~_safe(filename)
             THEN /\ ops' = Append(ops, Op("save", filename, config, "400", <<>>))
                  /\ UNCHANGED disk
             ELSE /\ disk' = [disk EXCEPT ![filename] = FileOf(config)]
                  /\ ops' = Append(ops, Op("save", filename, config, "200", <<>>))
  /\ UNCHANGED restSt

\* GET /api/site/<filename>: the stored config parsed, {} when there is no
\* file, an error when the filename is not safe
api_get_site ==
  /\ Len(ops) < MaxOps
  /\ \E filename \in DOMAIN disk \cup {Unsafe} :
       ops' = Append(ops,
         IF ~_safe(filename) THEN Op("get", filename, <<>>, "400", <<>>)
         ELSE IF disk[filename] = NoFile THEN Op("get", filename, <<>>, "200", <<>>)
         ELSE Op("get", filename, <<>>, "200", json_loads(disk[filename])))
  /\ UNCHANGED <<disk, restSt>>

\* The end of interactive_mode: the config the page handed over is written
\* whole under config_path, unless it is empty
SessionSave ==
  /\ Len(ops) < MaxOps
  /\ \E config \in StoreConfigs :
       LET config_path == SiteA
       IN  IF config = <<>>
             THEN /\ ops' = Append(ops, Op("session", config_path, config, "not saved", <<>>))
                  /\ UNCHANGED disk
             ELSE /\ disk' = [disk EXCEPT ![config_path] = FileOf(config)]
                  /\ ops' = Append(ops, Op("session", config_path, config, "written", <<>>))
  /\ UNCHANGED restSt

NextStore == api_save_site \/ api_get_site \/ SessionSave

SpecStore == InitStore /\ [][NextStore]_vars

\* ------------------------------------------------------------ pipeline runs
\* The date stamp of a run, strftime("%Y%m%d").
Stamp == <<"today">>

\* base name of the artifacts: f"{stamp}-{slugify(title)[:80]}"
BaseName(title) == Stamp \o <<"-">> \o Prefix(slugify(title), SlugMax)

\* The artifacts of a lesson: the text with a trailing newline, and the
\* payload, under the same base name.
Artifacts(title, text, collection) ==
  [txt |-> [name |-> BaseName(title) \o <<".txt">>,
            content |-> text \o <<Newline>>],
   payload |-> [name |-> BaseName(title) \o <<".payload.json">>,
                content |-> build_lingq_payload(title, text, collection)]]

\* The one URL of the model, and the title a run may be given.
TheUrl == "https://b/A-b"

TitleArgs == {<<>>, <<"z", Space, "A">>}

Collections == {Absent, <<7>>}

\* x or y on strings and sequences: x unless it is empty
Or(x, y, empty) == IF x # empty THEN x ELSE y

\* One pre-step of a config: its action, and the url or the selector it
\* names; value and ms at the values the examples use.
PreStep(action, url, selector) ==
  [action |-> action, url |-> url, selector |-> selector, value |-> "v", ms |-> ""]

\* The login page a pre-step navigates to.
LoginUrl == <<"https://b/login">>

\* The pre-step lists of the configs: "#go" is an element of the page, "#no"
\* matches nothing.
PreStepLists ==
  { <<PreStep(<<"bogus">>, <<>>, "#go"), PreStep(<<"click">>, <<>>, "#go")>>,
    <<PreStep(<<"goto">>, LoginUrl, ""), PreStep(<<"fill">>, <<>>, "#go"),
      PreStep(<<"Click">>, <<>>, "#go"), PreStep(<<Space, "click", Space>>, <<>>, "#go"),
      PreStep(<<"wait">>, <<>>, "")>>,
    <<PreStep(<<"click">>, <<>>, "#no"), PreStep(<<"click">>, <<>>, "#go")>>,
    <<PreStep(<<"select">>, <<>>, "#go"), PreStep(<<>>, <<>>, ""),
      PreStep(<<"fill">>, <<>>, "#no"), PreStep(<<"wait_for_load">>, <<>>, "")>>,
    <<PreStep(<<"goto">>, <<Space>>, ""), PreStep(<<"wait_for_load">>, <<>>, ""),
      PreStep(<<"goto">>, LoginUrl, "")>> }

\* One operation on the Playwright page, and whether it succeeded.
PageOp(op, target, ok) == [op |-> op, target |-> target, ok |-> ok]

\* Whether the page operation succeeds in world w: a navigation when the
\* site is up, an operation on a selector when the selector matches.
Works(w, op, target) ==
  CASE op = "goto" -> w.up
    [] op \in {"fill", "select_option", "click"} -> target # <<"#no">>
    [] OTHER -> TRUE

\* What one call of _run_pre_step did: the page operations, the warnings
\* printed, and whether it returned (ok) or raised.
Ran(done, warnings) ==
  [ops |-> done, warnings |-> warnings, ok |-> \A i \in 1..Len(done) : done[i].ok]

\* The actions _run_pre_step knows.
KnownActions ==
  {<<"goto">>, <<"fill">>, <<"select">>, <<"click">>, <<"wait_for_load">>, <<"wait">>}

\* The branch of _run_pre_step for a known action.
KnownStep(w, step) ==
  LET action == Strip(step.action)
      target == Strip(step.url)
      ms == IF step.ms # "" THEN step.ms ELSE "500"
      Do(op, arg) == Ran(<<PageOp(op, arg, Works(w, op, arg))>>, <<>>)
  IN  CASE action = <<"goto">> ->
             IF target # <<>> THEN Do("goto", target) ELSE Ran(<<>>, <<>>)
        [] action = <<"fill">> -> Do("fill", <<step.selector>>)
        [] action = <<"select">> -> Do("select_option", <<step.selector>>)
        [] action = <<"click">> -> Do("click", <<step.selector>>)
        [] action = <<"wait_for_load">> -> Do("wait_for_load_state", <<"domcontentloaded">>)
        [] action = <<"wait">> -> Do("wait_for_timeout", <<ms>>)

\* _run_pre_step that raises on an unknown action (a mutation)
_run_pre_step_Strict(w, step) ==
  IF Strip(step.action) \in KnownActions
    THEN KnownStep(w, step)
    ELSE [ops |-> <<>>, warnings |-> <<>>, ok |-> FALSE]

\* _run_pre_step that swallows the failure of a page operation (a mutation)
_run_pre_step_Lenient(w, step) ==
  IF Strip(step.action) \in KnownActions
    THEN [KnownStep(w, step) EXCEPT !.ok = TRUE]
    ELSE Ran(<<>>, <<Strip(step.action)>>)

\* _run_pre_step(page, step): the page operation of a known action; a
\* warning and nothing else for any other action
_run_pre_step(w, step) ==
  IF Strip(step.action) \in KnownActions
    THEN KnownStep(w, step)
    ELSE Ran(<<>>, <<Strip(step.action)>>)

RECURSIVE RunPreSteps(_, _, _, _)
\* for i, step in enumerate(pre_steps, 1): _run_pre_step(page, step), from
\* step i on, after what acc records; the loop ends at the first step that
\* raises
RunPreSteps(w, steps, i, acc) ==
  IF i > Len(steps) THEN acc
  ELSE LET r == _run_pre_step(w, steps[i])
           now == [ops |-> acc.ops \o r.ops, warnings |-> acc.warnings \o r.warnings,
                   ok |-> r.ok]
       IN  IF r.ok THEN RunPreSteps(w, steps, i + 1, now) ELSE now

\* ------------------------------------------------------- interactive session
\* d.get(k): the value under the key, None when the key is absent
Get(d, k) ==
  IF \E i \in 1..Len(d) : d[i].k = k
    THEN d[CHOOSE i \in 1..Len(d) : d[i].k = k].val
    ELSE PyNone

\* Python truth of a value: None, "", 0, [] and {} are false
Truthy(val) ==
  CASE val.t = "none" -> FALSE
    [] val.t = "str" -> val.v # <<"">>
    [] val.t = "int" -> val.v # <<"0">>
    [] val.t = "list" -> val.v # <<>>
    [] val.t = "dict" -> val.v # <<>>

\* The URLs of a session: the stored config's, the same with a trailing
\* slash, and another site's.
UrlA == "https://a.b/a"

UrlASlash == "https://a.b/a/"

UrlB == "https://b.a/x"

\* url.rstrip("/") on the URLs of the model
RStripSlash(url) == IF url = UrlASlash THEN UrlA ELSE url

\* A stored pre-step: a click on a selector.
ClickStep(selector) ==
  PyDict(<<Item("action", PyStr("click")), Item("selector", PyStr(selector))>>)

\* A stored pre-step that navigates to the login page.
GotoStep == PyDict(<<Item("action", PyStr("goto")), Item("url", PyStr(LoginUrl[1]))>>)

\* The stored config of a site with every field of a config: the fields of
\* the sidebar, and the pre-steps and languages of the headless import.
ConfigSite(pre_steps) ==
  << Item("url", PyStr(UrlA)),
     Item("selectors", PyList(<<PyStr("div")>>)),
     Item("api_key", PyStr("k")),
     Item("language", PyStr("es")),
     Item("browser_language", PyStr("es-ES")),
     Item("title", PyStr("t")),
     Item("collection_id", PyInt("7")),
     Item("pre_steps", PyList(pre_steps)),
     Item("source_lang", PyStr("es")),
     Item("accept_language", PyStr("es")) >>

\* The stored config of a site without pre-steps and without a key.
ConfigPlain ==
  << Item("url", PyStr(UrlA)),
     Item("selectors", PyList(<<PyStr("div")>>)),
     Item("api_key", PyStr("")),
     Item("language", PyStr("en")),
     Item("browser_language", PyNone),
     Item("title", PyNone),
     Item("collection_id", PyNone) >>

\* The configs a session may find under its config path.
SessionConfigs ==
  { ConfigFull, ConfigPlain,
    ConfigSite(<<GotoStep, ClickStep("#go")>>),
    ConfigSite(<<ClickStep("#no")>>) }

\* step.get(...) of a stored pre-step, as _run_pre_step reads it
StepOf(step) ==
  LET Str(val) == IF val.t = "str" THEN val.v ELSE <<>>
      selector == Get(step.v, "selector")
  IN  PreStep(Str(Get(step.v, "action")), Str(Get(step.v, "url")),
              IF selector.t = "str" THEN selector.v[1] ELSE "")

\* (current_config or {}).get("pre_steps") or []
PreStepsOf(config) ==
  LET pre_steps == Get(config, "pre_steps")
  IN  IF Truthy(pre_steps) THEN [i \in 1..Len(pre_steps.v) |-> StepOf(pre_steps.v[i])]
      ELSE <<>>

\* The value of an input of the sidebar after pre-population: the initial
\* config's when it is truthy, the input's own otherwise
Prefill(ic, k, own) ==
  LET val == Get(ic, k)
  IN  IF Truthy(val) /\ val.t \in {"str", "int"} THEN val.v[1] ELSE own

\* The sidebar after the overlay script ran with initial config ic: the
\* inputs, and the selector list
Prepopulate(ic) ==
  [api_key |-> Prefill(ic, "api_key", ""),
   language |-> Prefill(ic, "language", "en"),
   browser_language |-> Prefill(ic, "browser_language", ""),
   title |-> Prefill(ic, "title", ""),
   collection_id |-> Prefill(ic, "collection_id", ""),
   selectors |-> IF Truthy(Get(ic, "selectors")) THEN Get(ic, "selectors").v ELSE <<>>]

\* parseInt(colRaw, 10) || null on the inputs of the model
ParseInt(colRaw) == IF colRaw \in {"7", "42"} THEN PyInt(colRaw) ELSE PyNone

\* buildConfig() of the overlay: the page's URL, the working selector list
\* and the settings fields
buildConfig(href, form) ==
  LET OrNull(str) == IF str # "" THEN PyStr(str) ELSE PyNone
  IN  << Item("url", PyStr(href)),
         Item("selectors", PyList(form.selectors)),
         Item("api_key", PyStr(form.api_key)),
         Item("language", PyStr(IF form.language # "" THEN form.language ELSE "en")),
         Item("browser_language", OrNull(form.browser_language)),
         Item("title", OrNull(form.title)),
         Item("collection_id", ParseInt(form.collection_id)) >>

\* A document in which the overlay script has run with initial config ic:
\* the guard set, the flags and the config reset, the sidebar pre-populated
Overlay(href, ic) ==
  [open |-> TRUE, active |-> TRUE, done |-> FALSE, reload |-> FALSE,
   config |-> <<>>, href |-> href, form |-> Prepopulate(ic)]

\* A document in which no script has run.
Document(href) == [NoWindow EXCEPT !.open = TRUE, !.href = href]

\* Whether the page's domcontentloaded handler is registered while the
\* pre-steps run (a mutation: registered before them)
Registered_First(at) == TRUE

\* Whether the page's domcontentloaded handler is registered at a point of
\* the loop body: only from the navigation to the current URL on
Registered(at) == at = "goto"

\* The events of a document load at a point of the loop body, with the
\* overlay's injection when the handler is registered.
Loaded(at) ==
  IF Registered(at) THEN <<"domcontentloaded", "inject">> ELSE <<"domcontentloaded">>

RECURSIVE StepEvents(_)
\* The events of the page operations of the pre-steps.
StepEvents(done) ==
  IF done = <<>> THEN <<>>
  ELSE <<"prestep">>
         \o (IF Head(done).op = "goto" /\ Head(done).ok THEN Loaded("pre_steps") ELSE <<>>)
         \o StepEvents(Tail(done))

\* The locale a context gets from a config: its browser_language,
\* the engine's default (None) when that is empty.
LocaleOf(snapshot) ==
  IF Truthy(Get(snapshot, "browser_language"))
    THEN Get(snapshot, "browser_language")
    ELSE PyNone

\* The session entered a state of the controller.
Enter(se, state) == [se EXCEPT !.state = state, !.trace = Append(se.trace, state)]

\* context.close() left out (a mutation)
CloseContexts_Never(contexts) == contexts

\* context.close() on the contexts of the session
CloseContexts(contexts) ==
  [i \in 1..Len(contexts) |-> [contexts[i] EXCEPT !.open = FALSE]]

InitSession ==
  /\ disk \in [StorePaths -> {NoFile} \cup {FileOf(c) : c \in SessionConfigs}]
  /\ disk[SiteB] = NoFile
  /\ ops = <<>>
  /\ sess = NoSession
  /\ ToolsIdle
  /\ ExtractIdle
  /\ CleanIdle
  /\ NamesIdle
  /\ world \in {w \in Worlds : w.page = NoWorld.page /\ w.LINGQ_API_KEY = ""}
  /\ PipelineIdle

\* An initial config that keeps the stored config for every URL (a mutation)
InitialConfig_Always(saved, url) == saved

\* The initial config of a session on url when the config file holds saved:
\* the whole of it for the same URL, its api_key alone for another
InitialConfig(saved, url) ==
  LET saved_url == IF Get(saved, "url").t = "str" THEN Get(saved, "url").v[1] ELSE ""
  IN  IF RStripSlash(saved_url) = RStripSlash(url) THEN saved
      ELSE IF Truthy(Get(saved, "api_key"))
        THEN <<Item("api_key", Get(saved, "api_key"))>>
        ELSE <<>>

\* interactive_mode up to the loop: the stored config is read, whole when
\* it is for the session's URL, its api_key alone otherwise; the browser is
\* launched
SessionOpen ==
  /\ sess.state = "Idle"
  /\ \E url \in {UrlA, UrlASlash, UrlB} :
       LET config_path == SiteA
           initial_config ==
             IF disk[config_path] = NoFile THEN <<>>
             ELSE InitialConfig(json_loads(disk[config_path]), url)
       IN  sess' = Enter([sess EXCEPT !.url = url, !.start = url,
                                      !.found = disk[config_path],
                                      !.working = initial_config,
                                      !.initial = initial_config,
                                      !.browser = "open"], "Loading")
  /\ UNCHANGED <<disk, restSe>>

\* One entry to Loading: a new context with the working config's locale, a
\* new page, the pre-steps, the handler, the navigation to the current URL
\* and the overlay; a pre-step or a navigation that raises, because the
\* site is down, a selector matches nothing or the user closes the window
\* while the page loads, ends interactive_mode with the exception, and
\* leaving the with block stops Playwright
SessionLoad ==
  /\ sess.state = "Loading"
  /\ \E gone \in BOOLEAN :
     LET locale == LocaleOf(sess.working)
         steps == RunPreSteps(world, PreStepsOf(sess.working), 1, Ran(<<>>, <<>>))
         ok == steps.ok /\ world.up /\ ~gone
         events == StepEvents(steps.ops)
                     \o (IF ~steps.ok THEN <<>>
                         ELSE IF ok THEN <<"goto">> \o Loaded("goto") \o <<"reinject">>
                         ELSE <<"goto">>)
         context == [locale |-> locale, open |-> TRUE, events |-> events]
         loading == [sess EXCEPT !.contexts = Append(sess.contexts, context),
                                 !.closed = gone /\ steps.ok /\ world.up]
     IN  IF ok
           THEN sess' = Enter([loading EXCEPT !.window = Overlay(sess.url, sess.working)],
                              "AwaitingUserAction")
           ELSE sess' = Enter([loading EXCEPT !.browser = "stopped", !.outcome = "raised"],
                              "Ended")
  /\ UNCHANGED <<disk, restSe>>

\* The user may act on the page: the overlay is there, and the controller
\* has not been signalled.
Interactive ==
  /\ sess.state = "AwaitingUserAction"
  /\ sess.window.open
  /\ sess.window.active
  /\ ~sess.window.done
  /\ ~sess.window.reload

\* The user selects or deselects an element, or types a browser language
EditForm ==
  /\ Interactive
  /\ \/ \E sel \in {PyStr("p")} :
          LET selectors == sess.window.form.selectors
              kept == SelectSeq(selectors, LAMBDA s : s # sel)
          IN  sess' = [sess EXCEPT !.edited = TRUE, !.window.form.selectors =
                         IF kept = selectors THEN Append(selectors, sel) ELSE kept]
     \/ \E value \in {"", "es-ES"} :
          /\ sess.window.form.browser_language # value
          /\ sess' = [sess EXCEPT !.edited = TRUE,
                                   !.window.form.browser_language = value]
  /\ UNCHANGED <<disk, restSe>>

\* The user clicks Save Config & Exit: the snapshot, and the done flag
ClickSaveExit ==
  /\ Interactive
  /\ sess' = [sess EXCEPT
                !.window.config = buildConfig(sess.window.href, sess.window.form),
                !.window.done = TRUE,
                !.exited = buildConfig(sess.window.href, sess.window.form)]
  /\ UNCHANGED <<disk, restSe>>

\* The user clicks Save (keep open): the snapshot alone
ClickSave ==
  /\ Interactive
  /\ sess' = [sess EXCEPT
                !.window.config = buildConfig(sess.window.href, sess.window.form)]
  /\ UNCHANGED <<disk, restSe>>

\* The user clicks Reload: the snapshot, and the reload flag
ClickReload ==
  /\ Interactive
  /\ sess.reloads < MaxReloads
  /\ sess' = [sess EXCEPT
                !.window.config = buildConfig(sess.window.href, sess.window.form),
                !.window.reload = TRUE,
                !.reloads = @ + 1,
                !.requested = Append(@, buildConfig(sess.window.href, sess.window.form))]
  /\ UNCHANGED <<disk, restSe>>

\* The page navigates (a link, the address bar): a new document, in which
\* the handler runs the overlay script with the initial config of this
\* iteration
Navigate ==
  /\ Interactive
  /\ sess.navs < MaxNavs
  /\ \E href \in {UrlB} :
       LET n == Len(sess.contexts)
           events == sess.contexts[n].events \o <<"navigate">> \o Loaded("goto")
       IN  sess' = [sess EXCEPT
                      !.navs = @ + 1,
                      !.contexts[n].events = events,
                      !.window = IF Registered("goto") THEN Overlay(href, sess.working)
                                 ELSE Document(href)]
  /\ UNCHANGED <<disk, restSe>>

\* The user closes the browser window: the page is gone, and nothing of it
\* can be read any more
CloseWindow ==
  /\ sess.state = "AwaitingUserAction"
  /\ sess.window.open
  /\ ~sess.window.done
  /\ ~sess.window.reload
  /\ sess' = [sess EXCEPT !.window = NoWindow, !.closed = TRUE]
  /\ UNCHANGED <<disk, restSe>>

\* A wait for the signal that times out (a mutation)
Signalled_Timeout == TRUE

\* wait_for_function("window.__lingqDone || window.__lingqReload",
\* timeout=0) ends: a flag is set, or the page is gone
Signalled == sess.window.done \/ sess.window.reload \/ ~sess.window.open

\* wait_for_function returns or raises: the snapshot is read and the reload
\* flag decides between reload and save; a closed window gives no config
SessionWake ==
  /\ sess.state = "AwaitingUserAction"
  /\ Signalled
  /\ sess' =
       IF ~sess.window.open
         THEN Enter([sess EXCEPT !.config = <<>>], "SessionClosed")
         ELSE IF sess.window.reload
           THEN Enter([sess EXCEPT !.partial = sess.window.config], "ReloadRequested")
           ELSE Enter([sess EXCEPT !.partial = sess.window.config,
                                   !.config = sess.window.config], "SaveRequested")
  /\ UNCHANGED <<disk, restSe>>

\* The reload: the snapshot becomes the working config, its url the current
\* URL, the context is closed and the loop starts over
SessionReload ==
  /\ sess.state = "ReloadRequested"
  /\ sess' = Enter([sess EXCEPT
                     !.working = sess.partial,
                     !.url = IF Truthy(Get(sess.partial, "url"))
                               THEN Get(sess.partial, "url").v[1] ELSE @,
                     !.contexts = CloseContexts(@),
                     !.window = NoWindow], "Loading")
  /\ UNCHANGED <<disk, restSe>>

\* An end of interactive_mode that updates the stored config with the
\* fields of the snapshot (a mutation)
SessionFinish_Merge ==
  /\ sess.state \in {"SaveRequested", "SessionClosed"}
  /\ LET config_path == SiteA
         wrote == sess.config # <<>>
         RECURSIVE Patch(_, _)
         Patch(d, c) == IF c = <<>> THEN d
                        ELSE Patch(SetItem(d, Head(c).k, Head(c).val), Tail(c))
         stored == IF disk[config_path] = NoFile THEN <<>>
                   ELSE json_loads(disk[config_path])
     IN  /\ sess' = Enter([sess EXCEPT !.contexts = CloseContexts(@),
                                      !.browser = "closed", !.outcome = "returned",
                                      !.wrote = wrote], "Ended")
         /\ disk' = IF wrote
                      THEN [disk EXCEPT ![config_path] = FileOf(Patch(stored, sess.config))]
                      ELSE disk
  /\ UNCHANGED restSe

\* The end of interactive_mode: context and browser closed, the config
\* written whole under config_path unless it is empty
SessionFinish ==
  /\ sess.state \in {"SaveRequested", "SessionClosed"}
  /\ LET config_path == SiteA
         wrote == sess.config # <<>>
     IN  /\ sess' = Enter([sess EXCEPT !.contexts = CloseContexts(@),
                                      !.browser = "closed", !.outcome = "returned",
                                      !.wrote = wrote], "Ended")
         /\ disk' = IF wrote THEN [disk EXCEPT ![config_path] = FileOf(sess.config)]
                    ELSE disk
  /\ UNCHANGED restSe

\* main after interactive_mode returned: 1 when there is no config; else
\* the headless import when --upload is given or the prompt is answered
\* yes, and 0 when it is not
SessionReturn ==
  /\ sess.state = "Ended"
  /\ sess.outcome = "returned"
  /\ ~sess.main.returned
  /\ \E upload \in BOOLEAN, answer \in {"", "y", "n"} :
       sess' = [sess EXCEPT !.main =
         IF sess.config = <<>> THEN [returned |-> TRUE, headless |-> FALSE, rc |-> 1]
         ELSE IF upload \/ answer = "y"
           THEN [returned |-> TRUE, headless |-> TRUE, rc |-> NoRc]
           ELSE [returned |-> TRUE, headless |-> FALSE, rc |-> 0]]
  /\ UNCHANGED <<disk, restSe>>

NextSession ==
  \/ SessionOpen
  \/ SessionLoad
  \/ EditForm
  \/ ClickSaveExit
  \/ ClickSave
  \/ ClickReload
  \/ Navigate
  \/ CloseWindow
  \/ SessionWake
  \/ SessionReload
  \/ SessionFinish
  \/ SessionReturn

SpecSession == InitSession /\ [][NextSession]_vars

\* The session with a controller that takes the steps it can take: the
\* user may wait for ever, the controller does not.
SpecSessionLive ==
  /\ InitSession
  /\ [][NextSession]_vars
  /\ WF_vars(SessionLoad)
  /\ WF_vars(SessionWake)
  /\ WF_vars(SessionReload)
  /\ WF_vars(SessionFinish)

\* ----------------------------------------------------------- headless start
\* A JSON file of the directory that is no config file, and the text of a
\* file that is no JSON.
Notes == <<"notes", ".json">>

Broken == <<"{", "\"", "url", Newline>>

\* The paths of the current directory.
CwdPaths == StorePaths \cup {Notes}

\* Whether json.loads accepts the text: an object, closed, with nothing but
\* whitespace after it
Decodes(text) ==
  /\ Len(text) >= 3
  /\ text[1] = "{"
  /\ text[Len(text) - 1] = "}"
  /\ text[Len(text)] = Newline

\* The place of a path of the model in the order of the names.
NameRank(path) ==
  CASE path = SiteA -> 1
    [] path = SiteB -> 2
    [] path = Notes -> 3

\* sorted(paths)
SortedPaths(paths) ==
  [i \in 1..Cardinality(paths) |->
     CHOOSE p \in paths : Cardinality({q \in paths : NameRank(q) < NameRank(p)}) = i - 1]

\* A search for every *.json file (a mutation)
_find_config_files_AnyJson(dir) ==
  SortedPaths({p \in DOMAIN dir : dir[p] # NoFile /\ p[Len(p)] = ".json"})

\* _find_config_files(): sorted(Path(".").glob("lingq_*.json"))
_find_config_files(dir) ==
  SortedPaths({p \in DOMAIN dir :
                 dir[p] # NoFile /\ p[1] = "lingq_" /\ p[Len(p)] = ".json"})

InitCli ==
  /\ disk \in [CwdPaths -> {NoFile, Broken, FileOf(ConfigPlain)}]
  /\ ops = <<>>
  /\ cli = NoCli
  /\ audio = NoAudio
  /\ WebIdle
  /\ SessionIdle
  /\ ExtractIdle
  /\ CleanIdle
  /\ NamesIdle
  /\ world = NoWorld
  /\ PipelineIdle

\* main of lingq_interactive.py with --headless, up to the config path:
\* --config when given, else the one lingq_*.json file of the directory;
\* 1 when there is none or more than one
CliResolve ==
  /\ cli.pc = "idle"
  /\ \E config_arg \in {<<>>, SiteB, Notes} :
       LET candidates == IF config_arg = <<>> THEN _find_config_files(disk) ELSE <<>>
           started == [cli EXCEPT !.config_arg = config_arg, !.candidates = candidates]
       IN  cli' =
             IF config_arg # <<>>
               THEN [started EXCEPT !.config_path = config_arg, !.pc = "read"]
             ELSE IF Len(candidates) = 1
               THEN [started EXCEPT !.config_path = candidates[1], !.pc = "read"]
             ELSE IF Len(candidates) > 1
               THEN [started EXCEPT !.pc = "done", !.rc = 1, !.err = "multiple"]
               ELSE [started EXCEPT !.pc = "done", !.rc = 1, !.err = "none"]
  /\ UNCHANGED <<disk, restCli>>

\* main, the read of the config: 1 when the file is missing or is no JSON
CliRead ==
  /\ cli.pc = "read"
  /\ cli' =
       IF disk[cli.config_path] = NoFile
         THEN [cli EXCEPT !.pc = "done", !.rc = 1, !.err = "not_found"]
       ELSE IF ~Decodes(disk[cli.config_path])
         THEN [cli EXCEPT !.read = Append(@, cli.config_path),
                          !.pc = "done", !.rc = 1, !.err = "unreadable"]
         ELSE [cli EXCEPT !.read = Append(@, cli.config_path),
                          !.config = json_loads(disk[cli.config_path]),
                          !.pc = "run"]
  /\ UNCHANGED <<disk, restCli>>

\* main, the call of headless_mode with the config read; the return code
\* is headless_mode's
CliRun ==
  /\ cli.pc = "run"
  /\ cli' = [cli EXCEPT !.ran = TRUE, !.pc = "done"]
  /\ UNCHANGED <<disk, restCli>>

NextCli == CliResolve \/ CliRead \/ CliRun

SpecCli == InitCli /\ [][NextCli]_vars

\* -------------------------------------------------------------- audio batch
\* A file of the audio directory: its name is stem, number and extension.
Track(stem, num, ext) == [stem |-> stem, num |-> num, ext |-> ext]

\* The files a directory of the model may hold: two tracks whose plain
\* string order is not their numeric order, a third whose name differs
\* from the first in case only, a file that is no MP3, and "v1.mp3", which
\* stands for a run of BlockFiles files v1.mp3, v2.mp3, ... that fare alike.
AudioNames ==
  { Track("t", 2, ".mp3"), Track("t", 10, ".mp3"), Track("T", 2, ".mp3"),
    Track("t", 1, ".txt"), Track("v", 1, ".mp3") }

\* The number of files an entry of the directory stands for.
Files(p) == IF p.stem = "v" THEN BlockFiles ELSE 1

RECURSIVE FilesIn(_)
\* len() of a list of paths
FilesIn(paths) == IF paths = <<>> THEN 0 ELSE Files(Head(paths)) + FilesIn(Tail(paths))

\* The track numbers a batch may start at.
StartTracks == {1, 99}

\* mp3_dir.glob("*.mp3")
GlobMp3(names) == {p \in names : p.ext = ".mp3"}

\* natural_sort_key(p): the lowered name split on its digit runs, the runs
\* as numbers
natural_sort_key(p) == <<IF p.stem = "T" THEN "t" ELSE p.stem, p.num, p.ext>>

\* The order of the lowered stems of the model as strings: "t" < "v".
StemRank(stem) == IF stem = "t" THEN 1 ELSE 2

\* Whether a sequence is the set in an order sorted() may give for the key:
\* every file once, keys not decreasing; files with equal keys stay in the
\* order glob gave them, which is any
SortedBy(seq, paths) ==
  /\ Len(seq) = Cardinality(paths)
  /\ {seq[i] : i \in 1..Len(seq)} = paths
  /\ \A i, j \in 1..Len(seq) :
       i < j => LET a == natural_sort_key(seq[i])
                    b == natural_sort_key(seq[j])
                IN  IF a[1] = b[1] THEN a[2] <= b[2] ELSE StemRank(a[1]) < StemRank(b[1])

\* The orders in which sorted(glob, key=natural_sort_key) may list paths.
SortedLists(paths) ==
  {seq \in UNION {[1..n -> paths] : n \in {Cardinality(paths)}} : SortedBy(seq, paths)}

RECURSIVE Digits(_)
\* the decimal digits of a natural number
Digits(n) ==
  IF n < 10 THEN <<n>> ELSE Append(Digits(n \div 10), n % 10)

\* f"{n:0{pad}d}": the digits, zero-padded on the left to pad places
ZeroPad(n, pad) ==
  LET digits == Digits(n)
  IN  [i \in 1..(IF pad > Len(digits) THEN pad - Len(digits) ELSE 0) |-> 0] \o digits

\* title = f"{args.prefix} {track_num:0{pad}d}"
TrackTitle(track_num, pad) ==
  [prefix |-> "prefix", number |-> ZeroPad(track_num, pad)]

\* One transcription or upload of the batch, and whether it succeeded.
AudioOp(file, op, ok) == [file |-> file, op |-> op, ok |-> ok]

\* An API key test that a dry run does not skip (a mutation)
NeedsKey_Always(args) == TRUE

\* Whether the run checks for an API key: not in a dry run
NeedsKey(args) == ~args.dry_run

InitAudio ==
  /\ \E dir \in [exists : {TRUE}, names : SUBSET AudioNames]
                  \cup {[exists |-> FALSE, names |-> {}]} :
       audio = [NoAudio EXCEPT !.dir = dir]
  /\ cli = NoCli
  /\ WebIdle
  /\ StoreIdle
  /\ SessionIdle
  /\ ExtractIdle
  /\ CleanIdle
  /\ NamesIdle
  /\ world = NoWorld
  /\ PipelineIdle

\* main of lingq_audio_import.py up to the loop: the directory, the MP3
\* files in natural order, the padding, and the API key unless it is a dry
\* run
AudioStart ==
  /\ audio.pc = "idle"
  /\ \E dry_run \in BOOLEAN, transcribe \in BOOLEAN, api_key \in {"", "k"},
        start_track \in StartTracks, mp3_files \in SortedLists(GlobMp3(audio.dir.names)) :
       LET args == [dry_run |-> dry_run, transcribe |-> transcribe,
                    api_key |-> api_key, start_track |-> start_track]
           total == FilesIn(mp3_files)
           started == [audio EXCEPT !.args = args]
       IN  audio' =
             IF ~audio.dir.exists
               THEN [started EXCEPT !.pc = "done", !.rc = 1, !.err = "no_dir"]
             ELSE IF mp3_files = <<>>
               THEN [started EXCEPT !.pc = "done", !.rc = 1, !.err = "no_mp3"]
             ELSE IF NeedsKey(args) /\ api_key = ""
               THEN [started EXCEPT !.mp3_files = mp3_files,
                                    !.pc = "done", !.rc = 1, !.err = "no_key"]
               ELSE [started EXCEPT !.mp3_files = mp3_files,
                                    !.pad = IF start_track + total - 1 > 99 THEN 3 ELSE 2,
                                    !.pc = "loop"]
  /\ UNCHANGED restAu

\* One iteration of the loop: the title; in a dry run nothing more; else
\* the transcription when asked for, whose failure skips the upload, and
\* the upload.  A missing whisper package ends the process with 1.
AudioFile ==
  /\ audio.pc = "loop"
  /\ audio.i < Len(audio.mp3_files)
  /\ \E heard \in {"ok", "failed", "no_whisper"}, sent \in BOOLEAN :
       LET mp3_path == audio.mp3_files[audio.i + 1]
           track_num == audio.args.start_track + FilesIn(SubSeq(audio.mp3_files, 1, audio.i))
           title == TrackTitle(track_num, audio.pad)
           listed == [audio EXCEPT !.titles = Append(@, title), !.i = @ + 1]
           transcription == AudioOp(mp3_path, "transcribe", heard = "ok")
           upload == AudioOp(mp3_path, "upload", sent)
       IN  audio' =
             IF audio.args.dry_run THEN listed
             ELSE IF audio.args.transcribe /\ heard = "no_whisper"
               THEN [listed EXCEPT !.pc = "done", !.rc = 1, !.err = "no_whisper"]
             ELSE IF audio.args.transcribe /\ heard = "failed"
               THEN [listed EXCEPT !.log = Append(@, transcription),
                                    !.failures = @ + Files(mp3_path)]
               ELSE [listed EXCEPT
                       !.log = (IF audio.args.transcribe THEN Append(@, transcription) ELSE @)
                                 \o <<upload>>,
                       !.failures = IF sent THEN @ ELSE @ + Files(mp3_path)]
  /\ UNCHANGED restAu

\* The end of main: return failures
AudioEnd ==
  /\ audio.pc = "loop"
  /\ audio.i = Len(audio.mp3_files)
  /\ audio' = [audio EXCEPT !.pc = "done", !.rc = audio.failures]
  /\ UNCHANGED restAu

\* raise SystemExit(code): the exit status of the process is the low byte
\* of the code
SystemExit(code) == code % 256

\* __main__: raise SystemExit(main())
AudioExit ==
  /\ audio.pc = "done"
  /\ audio' = [audio EXCEPT !.pc = "exited", !.status = SystemExit(audio.rc)]
  /\ UNCHANGED restAu

NextAudio == AudioStart \/ AudioFile \/ AudioEnd \/ AudioExit

SpecAudio == InitAudio /\ [][NextAudio]_vars

\* --------------------------------------------------------- background jobs
\* The lines a job's process may print: one with its newline, one with
\* trailing blanks before it.
LineA == <<"a", Newline>>

LineB == <<"b", Space, Newline>>

\* What the process of a job prints on stdout.
JobOutputs == {<<>>, <<LineA>>, <<LineA, LineB>>}

\* The clients that poll one job at the same time.
Pollers == {1, 2}

\* f"ERROR: {exc}"
ErrorLine == <<"ERROR: ", "exc">>

\* The command of a headless import started from the control panel.
RunCmd(filename, upload) ==
  <<"lingq_interactive.py", "--headless", "--config", filename>>
    \o (IF upload THEN <<"--upload">> ELSE <<>>)

\* The command of an interactive session started from the control panel.
LaunchCmd(filename, url) ==
  <<"lingq_interactive.py", "--url", url, "--config", filename>>

\* The thread of a job before its first step, and the process it will run.
NewThread(out, returncode) ==
  [pc |-> "start", out |-> out, read |-> 0, returncode |-> returncode]

\* _start_job(cmd): a new entry of _jobs, {"lines": [], "done": False,
\* "rc": None}, and the thread that will run the command
_start_job(table, cmd) ==
  Append(table, [cmd |-> cmd, lines |-> <<>>, done |-> FALSE, rc |-> PyNone])

\* A client that has not polled yet.
NoPoll ==
  [pc |-> "idle", offset |-> 0, lines |-> <<>>, done |-> FALSE,
   received |-> <<>>, stopped |-> FALSE, rc |-> PyNone]

\* The state after _start_job returned: one job, its thread not yet run,
\* nobody polling.
InitJob ==
  /\ \E out \in JobOutputs, returncode \in {"0", "1"} :
       jobs = [table |-> _start_job(<<>>, RunCmd(<<"lingq_", "a", ".json">>, FALSE)),
               threads |-> <<NewThread(out, returncode)>>,
               lock |-> "free",
               polls |-> [p \in Pollers |-> NoPoll],
               page |-> NoJobs.page]
  /\ picker = NoPicker
  /\ cli = NoCli
  /\ audio = NoAudio
  /\ StoreIdle
  /\ SessionIdle
  /\ ExtractIdle
  /\ CleanIdle
  /\ NamesIdle
  /\ world = NoWorld
  /\ PipelineIdle

\* _run: subprocess.Popen(...), which may raise
ThreadPopen ==
  \E j \in 1..Len(jobs.threads), raised \in BOOLEAN :
    /\ jobs.threads[j].pc = "start"
    /\ jobs' = [jobs EXCEPT !.threads[j].pc = IF raised THEN "except" ELSE "lines"]
    /\ UNCHANGED restJob

\* _run: one iteration of `for line in proc.stdout`, the append under the
\* lock; reading the pipe may raise
ThreadLine ==
  \E j \in 1..Len(jobs.threads), raised \in BOOLEAN :
    LET thread == jobs.threads[j]
    IN  /\ thread.pc = "lines"
        /\ thread.read < Len(thread.out)
        /\ jobs.lock = "free"
        /\ jobs' =
             IF raised THEN [jobs EXCEPT !.threads[j].pc = "except"]
             ELSE [jobs EXCEPT
                     !.table[j].lines = Append(@, RStrip(thread.out[thread.read + 1], Whitespace)),
                     !.threads[j].read = @ + 1]
        /\ UNCHANGED restJob

\* _run: the end of stdout, proc.wait(), the lock taken and done set
ThreadDone ==
  \E j \in 1..Len(jobs.threads) :
    LET thread == jobs.threads[j]
    IN  /\ thread.pc = "lines"
        /\ thread.read = Len(thread.out)
        /\ jobs.lock = "free"
        /\ jobs' = [jobs EXCEPT !.lock = "thread", !.table[j].done = TRUE,
                                !.threads[j].pc = "rc"]
        /\ UNCHANGED restJob

\* _run: rc set to proc.returncode, the lock released
ThreadRc ==
  \E j \in 1..Len(jobs.threads) :
    /\ jobs.threads[j].pc = "rc"
    /\ jobs' = [jobs EXCEPT !.lock = "free",
                            !.table[j].rc = PyInt(jobs.threads[j].returncode),
                            !.threads[j].pc = "end"]
    /\ UNCHANGED restJob

\* _run, except: the lock taken and the error line appended
ThreadExcept ==
  \E j \in 1..Len(jobs.threads) :
    /\ jobs.threads[j].pc = "except"
    /\ jobs.lock = "free"
    /\ jobs' = [jobs EXCEPT !.lock = "thread",
                            !.table[j].lines = Append(@, ErrorLine),
                            !.threads[j].pc = "except_done"]
    /\ UNCHANGED restJob

\* _run, except: done set
ThreadExceptDone ==
  \E j \in 1..Len(jobs.threads) :
    /\ jobs.threads[j].pc = "except_done"
    /\ jobs' = [jobs EXCEPT !.table[j].done = TRUE, !.threads[j].pc = "except_rc"]
    /\ UNCHANGED restJob

\* _run, except: rc set to 1, the lock released
ThreadExceptRc ==
  \E j \in 1..Len(jobs.threads) :
    /\ jobs.threads[j].pc = "except_rc"
    /\ jobs' = [jobs EXCEPT !.lock = "free", !.table[j].rc = PyInt("1"),
                            !.threads[j].pc = "end"]
    /\ UNCHANGED restJob

\* The job a poll is about: the one started last.
Polled == Len(jobs.table)

\* api_job: a client asks with the number of lines it has; the job is
\* looked up under the lock, which is released at once
PollGet ==
  \E p \in DOMAIN jobs.polls :
    LET poll == jobs.polls[p]
    IN  /\ poll.pc = "idle"
        /\ ~poll.stopped
        /\ jobs.lock = "free"
        /\ jobs' = [jobs EXCEPT !.polls[p].pc = "got",
                                !.polls[p].offset = Len(poll.received)]
        /\ UNCHANGED restJob

\* api_job: job["lines"][offset:], read without the lock
PollLines ==
  \E p \in DOMAIN jobs.polls :
    LET poll == jobs.polls[p]
        stored == jobs.table[Polled].lines
    IN  /\ poll.pc = "got"
        /\ jobs' = [jobs EXCEPT !.polls[p].pc = "lines",
                                !.polls[p].lines = SubSeq(stored, poll.offset + 1, Len(stored))]
        /\ UNCHANGED restJob

\* api_job: job["done"], read without the lock
PollDone ==
  \E p \in DOMAIN jobs.polls :
    /\ jobs.polls[p].pc = "lines"
    /\ jobs' = [jobs EXCEPT !.polls[p].pc = "done",
                            !.polls[p].done = jobs.table[Polled].done]
    /\ UNCHANGED restJob

\* api_job: job["rc"], read without the lock, and the response; the client
\* adds the lines to those it has and stops when the response says done
PollRc ==
  \E p \in DOMAIN jobs.polls :
    LET poll == jobs.polls[p]
    IN  /\ poll.pc = "done"
        /\ jobs' = [jobs EXCEPT !.polls[p].pc = "idle",
                                !.polls[p].rc = jobs.table[Polled].rc,
                                !.polls[p].received = @ \o poll.lines,
                                !.polls[p].stopped = poll.done]
        /\ UNCHANGED restJob

NextJob ==
  \/ ThreadPopen
  \/ ThreadLine
  \/ ThreadDone
  \/ ThreadRc
  \/ ThreadExcept
  \/ ThreadExceptDone
  \/ ThreadExceptRc
  \/ PollGet
  \/ PollLines
  \/ PollDone
  \/ PollRc

SpecJob == InitJob /\ [][NextJob]_vars

\* ------------------------------------------------- control panel endpoints
\* A filename that ends in a newline, as a request path can carry it.
SiteANl == SiteA \o <<Newline>>

\* The files the directory of the control panel may hold.
PanelPaths == {SiteA, SiteANl}

\* The url field of a launch request: missing, or a page.
LaunchUrls == {"", UrlA}

\* The form of the control panel's page after populateForm(c)
populateForm(c) ==
  LET coll == Get(c, "collection_id")
  IN  [url |-> Prefill(c, "url", ""),
       api_key |-> Prefill(c, "api_key", ""),
       language |-> Prefill(c, "language", "en"),
       browser_language |-> Prefill(c, "browser_language", ""),
       title |-> Prefill(c, "title", ""),
       collection_id |-> IF coll.t \in {"str", "int"} THEN coll.v[1] ELSE "",
       selectors |-> IF Truthy(Get(c, "selectors")) THEN Get(c, "selectors").v ELSE <<>>]

\* buildConfig() of the control panel's page: the fields of the form
panelConfig(form) ==
  LET OrNull(str) == IF str # "" THEN PyStr(str) ELSE PyNone
  IN  << Item("url", PyStr(form.url)),
         Item("selectors", PyList(SelectSeq(form.selectors, LAMBDA sel : Truthy(sel)))),
         Item("api_key", PyStr(form.api_key)),
         Item("language", PyStr(IF form.language # "" THEN form.language ELSE "en")),
         Item("browser_language", OrNull(form.browser_language)),
         Item("title", OrNull(form.title)),
         Item("collection_id", ParseInt(form.collection_id)) >>

\* The files the page lists: those the glob lingq_*.json finds.
Listed == {f \in DOMAIN disk : disk[f] # NoFile /\ f[1] = "lingq_" /\ f[Len(f)] = ".json"}

\* The configs the directory of the control panel may hold.
PanelConfigs == {ConfigFull, ConfigSite(<<GotoStep, ClickStep("#go")>>)}

InitPanel ==
  /\ disk \in [PanelPaths -> {NoFile} \cup {FileOf(c) : c \in PanelConfigs}]
  /\ ops = <<>>
  /\ ExtractIdle
  /\ CleanIdle
  /\ NamesIdle
  /\ SessionIdle
  /\ ToolsIdle
  /\ world = NoWorld
  /\ PipelineIdle

\* DELETE /api/site/<filename>: the file removed when there is one, an
\* error when the filename is not safe
api_delete_site ==
  /\ Len(ops) < MaxOps
  /\ \E filename \in DOMAIN disk \cup {Unsafe} :
       IF ~_safe(filename)
         THEN /\ ops' = Append(ops, Op("delete", filename, <<>>, "400", <<>>))
              /\ UNCHANGED disk
         ELSE /\ disk' = [disk EXCEPT ![filename] = NoFile]
              /\ ops' = Append(ops, Op("delete", filename, <<>>, "200", <<>>))
  /\ UNCHANGED <<jobs, restPanel>>

\* POST /api/launch: a job that runs the interactive session on the body's
\* url and filename, an error when the filename is not safe or there is no
\* url
api_launch ==
  /\ Len(ops) < MaxOps
  /\ \E name \in DOMAIN disk \cup {Unsafe}, url \in LaunchUrls :
       LET filename == Strip(name)
       IN  IF ~_safe(filename) \/ url = ""
             THEN /\ ops' = Append(ops, Op("launch", filename, <<>>, "400", <<>>))
                  /\ UNCHANGED jobs
             ELSE /\ jobs' = [jobs EXCEPT
                       !.table = _start_job(@, LaunchCmd(filename, url)),
                       !.threads = Append(@, NewThread(<<>>, "0"))]
                  /\ ops' = Append(ops, Op("launch", filename, <<>>, "200", <<>>))
  /\ UNCHANGED <<disk, restPanel>>

\* POST /api/run: a job that runs the headless import on the body's
\* filename, an error when the filename is not safe
api_run ==
  /\ Len(ops) < MaxOps
  /\ \E name \in DOMAIN disk \cup {Unsafe}, upload \in BOOLEAN :
       LET filename == Strip(name)
       IN  IF ~_safe(filename)
             THEN /\ ops' = Append(ops, Op("run", filename, <<>>, "400", <<>>))
                  /\ UNCHANGED jobs
             ELSE /\ jobs' = [jobs EXCEPT
                       !.table = _start_job(@, RunCmd(filename, upload)),
                       !.threads = Append(@, NewThread(<<>>, "0"))]
                  /\ ops' = Append(ops, Op("run", filename, <<>>, "200", <<>>))
  /\ UNCHANGED <<disk, restPanel>>

\* openSite(filename): the config fetched and the form filled with it
openSite ==
  /\ Len(ops) < MaxOps
  /\ \E filename \in Listed :
       LET config == json_loads(disk[filename])
       IN  /\ ops' = Append(ops, Op("get", filename, <<>>, "200", config))
           /\ jobs' = [jobs EXCEPT !.page = [open |-> TRUE, currentFile |-> filename,
                                              form |-> populateForm(config)]]
  /\ UNCHANGED <<disk, restPanel>>

\* saveSite() and the request that follows it: the form's config written
\* under the current file, then the job started on that file
SaveAndStart(op, cmd) ==
  LET config == panelConfig(jobs.page.form)
      filename == jobs.page.currentFile
  IN  /\ config[1].val # PyStr("")
      /\ Len(ops) + 1 < MaxOps
      /\ disk' = [disk EXCEPT ![filename] = FileOf(config)]
      /\ ops' = ops \o <<Op("save", filename, config, "200", <<>>),
                          Op(op, filename, <<>>, "200", <<>>)>>
      /\ jobs' = [jobs EXCEPT !.table = _start_job(@, cmd),
                              !.threads = Append(@, NewThread(<<>>, "0"))]
      /\ UNCHANGED restPanel

\* launchBrowser(): the form saved, then POST /api/launch
launchBrowser ==
  /\ jobs.page.open
  /\ SaveAndStart("launch", LaunchCmd(jobs.page.currentFile, jobs.page.form.url))

\* runImport(): the form saved, then POST /api/run
runImport ==
  /\ jobs.page.open
  /\ \E upload \in BOOLEAN : SaveAndStart("run", RunCmd(jobs.page.currentFile, upload))

NextPanel ==
  \/ api_get_site
  \/ api_save_site
  \/ api_delete_site
  \/ api_launch
  \/ api_run
  \/ openSite
  \/ launchBrowser
  \/ runImport

SpecPanel == InitPanel /\ [][NextPanel]_vars

\* ------------------------------------------------------ the overlay's picker
\* An element of a page: its tag, id, classes and parent (0 for the root).
\* The elements of a page are numbered in document order; 1 is the root
\* element and 2 is the body.
Elem(tag, id, classes, parent) ==
  [tag |-> tag, id |-> id, classes |-> classes, parent |-> parent]

\* A page with two blocks of the same class and two unclassed paragraphs.
PageTwins ==
  << Elem("html", "", <<>>, 0), Elem("body", "", <<>>, 1),
     Elem("div", "", <<"c">>, 2), Elem("div", "", <<"c", "d">>, 2),
     Elem("p", "", <<>>, 3), Elem("p", "", <<>>, 3) >>

\* A page with an id, an element of four classes and one whose only class
\* starts with __l.
PageIds ==
  << Elem("html", "", <<>>, 0), Elem("body", "", <<>>, 1),
     Elem("div", "x", <<"c">>, 2), Elem("div", "", <<"c", "d", "e", "f">>, 2),
     Elem("span", "", <<"__lx">>, 3), Elem("span", "", <<"__lx", "c">>, 3) >>

\* A page whose body has an id, with an id and unclassed elements further
\* down.
PageDeep ==
  << Elem("html", "", <<>>, 0), Elem("body", "b", <<>>, 1),
     Elem("section", "", <<>>, 2), Elem("div", "y", <<>>, 3),
     Elem("div", "", <<>>, 3), Elem("span", "", <<"__lx">>, 5) >>

PickerPages == {PageTwins, PageIds, PageDeep}

\* c.startsWith('__l')
Internal(c) == c \in {"__ls", "__lh", "__lx"}

\* One compound of a selector: '#id', 'body', or a tag with classes and
\* perhaps :nth-child(n); "invalid" is text that is no selector.
Step(kind, tag, id, cls, nth) ==
  [kind |-> kind, tag |-> tag, id |-> id, cls |-> cls, nth |-> nth]

\* sibs.indexOf(cur) + 1: the place of an element among its parent's
\* children
ChildIndex(dom, el) ==
  Cardinality({m \in 1..el : dom[m].parent = dom[el].parent})

RECURSIVE GenWalk_AllClasses(_, _, _)
\* The loop of genSel without slice(0, 3) (a mutation)
GenWalk_AllClasses(dom, cur, parts) ==
  IF cur = 0 \/ cur = 1 THEN parts
  ELSE IF cur = 2 THEN <<Step("body", "", "", <<>>, 0)>> \o parts
  ELSE IF dom[cur].id # "" THEN <<Step("id", "", dom[cur].id, <<>>, 0)>> \o parts
  ELSE LET cls == SelectSeq(dom[cur].classes, LAMBDA c : ~Internal(c))
           idx == ChildIndex(dom, cur) - 1
           nth == IF cls = <<>> /\ dom[cur].parent # 0 /\ idx > 0 THEN idx + 1 ELSE 0
       IN  GenWalk_AllClasses(dom, dom[cur].parent,
                              <<Step("tag", dom[cur].tag, "", cls, nth)>> \o parts)

RECURSIVE GenWalk(_, _, _)
\* genSel: the loop from the element up to the body or to an id
GenWalk(dom, cur, parts) ==
  IF cur = 0 \/ cur = 1 THEN parts
  ELSE IF cur = 2 THEN <<Step("body", "", "", <<>>, 0)>> \o parts
  ELSE IF dom[cur].id # "" THEN <<Step("id", "", dom[cur].id, <<>>, 0)>> \o parts
  ELSE LET kept == SelectSeq(dom[cur].classes, LAMBDA c : ~Internal(c))
           cls == SubSeq(kept, 1, IF Len(kept) > 3 THEN 3 ELSE Len(kept))
           idx == ChildIndex(dom, cur) - 1
           nth == IF cls = <<>> /\ dom[cur].parent # 0 /\ idx > 0 THEN idx + 1 ELSE 0
       IN  GenWalk(dom, dom[cur].parent, <<Step("tag", dom[cur].tag, "", cls, nth)>> \o parts)

\* genSel(el): '#id' when the element has an id, else the parts joined by
\* ' > '
genSel(dom, el) ==
  IF dom[el].id # "" THEN <<Step("id", "", dom[el].id, <<>>, 0)>>
  ELSE GenWalk(dom, el, <<>>)

\* Whether text is a selector querySelectorAll accepts.
ValidSelector(sel) ==
  sel # <<>> /\ \A i \in 1..Len(sel) : sel[i].kind # "invalid"

\* Whether an element matches one compound.
MatchesStep(dom, el, step) ==
  IF step.kind = "id" THEN dom[el].id = step.id
  ELSE IF step.kind = "body" THEN dom[el].tag = "body"
  ELSE /\ dom[el].tag = step.tag
       /\ \A i \in 1..Len(step.cls) :
            \E k \in 1..Len(dom[el].classes) : dom[el].classes[k] = step.cls[i]
       /\ step.nth # 0 => ChildIndex(dom, el) = step.nth

RECURSIVE Matches(_, _, _)
\* Whether an element matches a selector whose compounds are joined by the
\* child combinator.
Matches(dom, el, sel) ==
  /\ el # 0
  /\ ValidSelector(sel)
  /\ MatchesStep(dom, el, sel[Len(sel)])
  /\ Len(sel) > 1 => Matches(dom, dom[el].parent, SubSeq(sel, 1, Len(sel) - 1))

\* document.querySelectorAll(sel)
querySelectorAll(dom, sel) == {el \in 1..Len(dom) : Matches(dom, el, sel)}

\* selectors.indexOf(sel), 0 when it is not in the list
IndexOf(list, sel) ==
  IF \E i \in 1..Len(list) : list[i] = sel
    THEN CHOOSE i \in 1..Len(list) : list[i] = sel /\ \A k \in 1..(i - 1) : list[k] # sel
    ELSE 0

\* selectors.splice(i, 1)
Splice(list, i) == SubSeq(list, 1, i - 1) \o SubSeq(list, i + 1, Len(list))

\* The selector lists a session is opened with: none, a generated path, a
\* tag typed by hand, text that is no selector.
PreloadedLists ==
  { <<>>,
    << <<Step("body", "", "", <<>>, 0), Step("tag", "div", "", <<"c">>, 0)>> >>,
    << <<Step("tag", "div", "", <<>>, 0)>> >>,
    << <<Step("invalid", "", "", <<>>, 0)>> >> }

\* rehighlight(): the elements each selector of the list matches, those of
\* an invalid selector apart
rehighlight(dom, list) ==
  UNION {querySelectorAll(dom, list[i]) : i \in 1..Len(list)}

\* The click handler that removes the mark from the clicked element only
\* (a mutation)
ClickOn_OwnMark(pk, el) ==
  LET sel == genSel(pk.dom, el)
      idx == IndexOf(pk.selectors, sel)
  IN  IF el \in pk.shown
        THEN [pk EXCEPT !.shown = @ \ {el},
                        !.selectors = IF idx # 0 THEN Splice(@, idx) ELSE @,
                        !.status = "Deselected"]
        ELSE [pk EXCEPT !.shown = @ \cup {el},
                        !.selectors = IF idx # 0 THEN @ ELSE Append(@, sel),
                        !.status = "Selected"]

\* The click handler on an element of the page: deselect when the element
\* carries __ls, select otherwise.  The hover mark __lh, which the handler
\* also sets and which only the hover handlers read, is left out.
ClickOn(pk, el) ==
  LET sel == genSel(pk.dom, el)
      idx == IndexOf(pk.selectors, sel)
  IN  IF el \in pk.shown
        THEN [pk EXCEPT !.shown = IF ValidSelector(sel)
                                    THEN @ \ querySelectorAll(pk.dom, sel)
                                    ELSE @ \ {el},
                        !.selectors = IF idx # 0 THEN Splice(@, idx) ELSE @,
                        !.status = "Deselected"]
        ELSE [pk EXCEPT !.shown = @ \cup {el},
                        !.selectors = IF idx # 0 THEN @ ELSE Append(@, sel),
                        !.status = "Selected"]

\* The overlay has just been injected into a page: selectors is the
\* config's list and the elements it matches carry __ls.
InitPicker ==
  /\ \E dom \in PickerPages, list \in PreloadedLists :
       picker = [on |-> TRUE, dom |-> dom, selectors |-> list,
                 shown |-> rehighlight(dom, list), status |-> ""]
  /\ jobs = NoJobs
  /\ cli = NoCli
  /\ audio = NoAudio
  /\ StoreIdle
  /\ SessionIdle
  /\ ExtractIdle
  /\ CleanIdle
  /\ NamesIdle
  /\ world = NoWorld
  /\ PipelineIdle

\* A click on an element of the page.
PickerClick ==
  /\ picker.on
  /\ \E el \in 1..Len(picker.dom) :
       picker' = ClickOn(picker, el)
  /\ UNCHANGED restPick

\* A click on the remove button of an entry of the list.
PickerRemove ==
  /\ picker.on
  /\ \E i \in 1..Len(picker.selectors) :
       LET sel == picker.selectors[i]
       IN  picker' = [picker EXCEPT !.shown = @ \ querySelectorAll(picker.dom, sel),
                                    !.selectors = Splice(@, i),
                                    !.status = "Removed"]
  /\ UNCHANGED restPick

\* A click on Clear all.
PickerClear ==
  /\ picker.on
  /\ picker' = [picker EXCEPT !.shown = {}, !.selectors = <<>>,
                              !.status = "Cleared"]
  /\ UNCHANGED restPick

NextPicker == PickerClick \/ PickerRemove \/ PickerClear

SpecPicker == InitPicker /\ [][NextPicker]_vars

\* The config dicts a headless run is started with.
Configs ==
  [url : {"", TheUrl},
   selectors : {<<>>, <<"div">>},
   api_key : {"", "cfgkey"},
   title : TitleArgs,
   source_lang : {"", "es"},
   browser_language : {"", "es-ES"},
   accept_language : {""},
   pre_steps : {<<>>, <<PreStep(<<"click">>, <<>>, "#go")>>},
   collection_id : {Absent}]
    \cup
  [url : {TheUrl},
   selectors : {<<>>},
   api_key : {"cfgkey"},
   title : {<<>>},
   source_lang : {""},
   browser_language : {"es-ES"},
   accept_language : {"es"},
   pre_steps : {<<>>},
   collection_id : Collections]
    \cup
  [url : {TheUrl},
   selectors : {<<>>},
   api_key : {""},
   title : {<<>>},
   source_lang : {""},
   browser_language : {""},
   accept_language : {""},
   pre_steps : PreStepLists,
   collection_id : {Absent}]

\* A stage ended: its name and whether it succeeded.
Stage(name, ok) == [stage |-> name, ok |-> ok]

Request(kind, ok) == [kind |-> kind, ok |-> ok]

\* The run returns code c after printing error e.
Return(c, e) ==
  /\ pc' = "done"
  /\ rc' = c
  /\ err' = e

\* An exception e escapes the run: nothing is returned.
Raise(e) ==
  /\ pc' = "done"
  /\ rc' = NoRc
  /\ err' = e

\* main() of lingq_daily_import.py up to the fetch: the arguments, the
\* environment's key, the title seed.
StartMain ==
  /\ pc = "idle"
  /\ \E title \in TitleArgs, upload \in BOOLEAN, min_words \in 0..MaxMinWords,
        collection \in Collections :
       run' = [entry |-> "main", url |-> TheUrl, upload |-> upload,
               min_words |-> min_words, title_ovr |-> title,
               title_seed |-> Or(title, derive_default_title(TheUrl), <<>>),
               api_key |-> world.LINGQ_API_KEY, selectors |-> <<>>,
               source_lang |-> "", pre_steps |-> <<>>, accept_lang |-> "",
               collection |-> collection]
  /\ pc' = "fetch"
  /\ UNCHANGED <<hvars, browser, world, html, extracted, lesson, out_dir, files,
                 requests, stages, rc, err>>

\* headless_mode up to the fetch: the config's fields, the source URL, the
\* title seed.
StartHeadless ==
  /\ pc = "idle"
  /\ \E config \in Configs, upload \in BOOLEAN, min_words \in 0..MaxMinWords :
       /\ run' = [entry |-> "headless", url |-> config.url, upload |-> upload,
                  min_words |-> min_words, title_ovr |-> config.title,
                  title_seed |-> Or(config.title, derive_default_title(config.url), <<>>),
                  api_key |-> Or(config.api_key, world.LINGQ_API_KEY, ""),
                  selectors |-> config.selectors,
                  source_lang |-> config.source_lang,
                  pre_steps |-> config.pre_steps,
                  accept_lang |-> Or(config.accept_language, config.browser_language, ""),
                  collection |-> config.collection_id]
       /\ IF config.url = ""
            THEN Return(1, "no_url")
            ELSE IF config.source_lang # "" /\ "with_query_param" \notin ldi_names
              THEN Raise("AttributeError")
              ELSE pc' = "fetch" /\ UNCHANGED <<rc, err>>
  /\ UNCHANGED <<hvars, browser, world, html, extracted, lesson, out_dir, files,
                 requests, stages>>

\* The run's except clause catches what the fetch or the extraction raised:
\* headless_mode catches every Exception, main only requests' own.
Caught(exception) ==
  IF run.entry = "headless" THEN TRUE ELSE exception = "RequestException"

\* The fetch or the extraction raised: the handler's return, or the escape.
Failed(exception) ==
  IF Caught(exception) THEN Return(1, "fetch") ELSE Raise(exception)

\* A fetch that is tried again after a failure (a mutation)
Fetch_Retry ==
  /\ pc = "fetch"
  /\ run.pre_steps = <<>>
  /\ Binds(fetch_html_params, IF run.entry = "headless" THEN {"accept_language"} ELSE {})
  /\ requests' = Append(requests, Request("GET", world.up))
  /\ stages' = Append(stages, Stage("fetch", world.up))
  /\ IF world.up
       THEN html' = world.page /\ pc' = "extract" /\ UNCHANGED <<rc, err>>
       ELSE UNCHANGED <<html, pc, rc, err>>
  /\ UNCHANGED <<hvars, browser, world, run, extracted, lesson, out_dir, files>>

\* html = fetch_html(url): one GET, inside the run's try.  The call must
\* bind its keyword arguments first.
Fetch ==
  /\ pc = "fetch"
  /\ run.pre_steps = <<>>
  /\ LET kwargs == IF run.entry = "headless" THEN {"accept_language"} ELSE {}
     IN  IF ~Binds(fetch_html_params, kwargs)
           THEN /\ Failed("TypeError")
                /\ stages' = Append(stages, Stage("fetch", FALSE))
                /\ UNCHANGED <<html, requests>>
           ELSE /\ requests' = Append(requests, Request("GET", world.up))
                /\ stages' = Append(stages, Stage("fetch", world.up))
                /\ IF world.up
                     THEN html' = world.page /\ pc' = "extract" /\ UNCHANGED <<rc, err>>
                     ELSE Failed("RequestException") /\ UNCHANGED html
  /\ UNCHANGED <<hvars, browser, world, run, extracted, lesson, out_dir, files>>

\* html = _fetch_html_with_playwright(config, source_url): the pre-steps and
\* the navigation to the URL in one browser, which is closed whatever
\* happens; a step or a navigation that raises ends the fetch with the
\* exception.
FetchScripted ==
  /\ pc = "fetch"
  /\ run.pre_steps # <<>>
  /\ LET steps == RunPreSteps(world, run.pre_steps, 1, Ran(<<>>, <<>>))
         goto == PageOp("goto", <<run.url>>, world.up)
         done == IF steps.ok THEN Append(steps.ops, goto) ELSE steps.ops
         ok == steps.ok /\ goto.ok
     IN  /\ browser' = [launched |-> TRUE, closed |-> TRUE, ops |-> done,
                        warnings |-> steps.warnings]
         /\ requests' = Append(requests, Request("BROWSER", ok))
         /\ stages' = Append(stages, Stage("fetch", ok))
         /\ IF ok
              THEN html' = world.page /\ pc' = "extract" /\ UNCHANGED <<rc, err>>
              ELSE Failed("Error") /\ UNCHANGED html
  /\ UNCHANGED <<hvars, world, run, extracted, lesson, out_dir, files>>

\* extracted = extract_content(html, fallback_title=title_seed), with
\* selectors=selectors in headless_mode, inside the run's try.
Extract ==
  /\ pc = "extract"
  /\ LET kwargs == IF run.entry = "headless"
                     THEN {"fallback_title", "selectors"}
                     ELSE {"fallback_title"}
     IN  IF ~Binds(extract_content_params, kwargs)
           THEN /\ Failed("TypeError")
                /\ stages' = Append(stages, Stage("extract", FALSE))
                /\ UNCHANGED extracted
           ELSE /\ extracted' = extract_content(html, run.title_seed)
                /\ stages' = Append(stages, Stage("extract", TRUE))
                /\ pc' = "validate"
                /\ UNCHANGED <<rc, err>>
  /\ UNCHANGED <<hvars, browser, world, run, html, lesson, out_dir, files, requests>>

\* The word-count gate with <= in place of < (a mutation)
TooShort_AtMost(word_count, min_words) == word_count <= min_words

\* word_count < min_words
TooShort(word_count, min_words) == word_count < min_words

\* title, text and word_count as the run reads them from the extraction
LessonOf(r, ex) ==
  LET title == Or(r.title_ovr, Or(ex.title, r.title_seed, <<>>), <<>>)
      text == IF r.entry = "main" THEN clean_text(ex.text) ELSE ex.text
  IN  [title |-> title, text |-> text, word_count |-> WordCount(text)]

\* A validation that writes the artifacts before it counts the words
\* (a mutation)
Validate_WritesFirst ==
  /\ pc = "validate"
  /\ lesson' = LessonOf(run, extracted)
  /\ out_dir' = TRUE
  /\ files' = Artifacts(lesson'.title, lesson'.text, run.collection)
  /\ IF TooShort(lesson'.word_count, run.min_words)
       THEN /\ Return(1, "too_short")
            /\ stages' = Append(stages, Stage("validate", FALSE))
       ELSE /\ pc' = "write"
            /\ stages' = Append(stages, Stage("validate", TRUE))
            /\ UNCHANGED <<rc, err>>
  /\ UNCHANGED <<hvars, browser, world, run, html, extracted, requests>>

\* The word-count validation: title, text, word_count, and the too-short
\* return.
Validate ==
  /\ pc = "validate"
  /\ lesson' = LessonOf(run, extracted)
  /\ IF TooShort(lesson'.word_count, run.min_words)
       THEN /\ Return(1, "too_short")
            /\ stages' = Append(stages, Stage("validate", FALSE))
       ELSE /\ pc' = "write"
            /\ stages' = Append(stages, Stage("validate", TRUE))
            /\ UNCHANGED <<rc, err>>
  /\ UNCHANGED <<hvars, browser, world, run, html, extracted, out_dir, files, requests>>

\* A key test that lets every key through (a mutation)
HasKey_Always(api_key) == TRUE

\* if not api_key: the key is missing when None or empty
HasKey(api_key) == api_key # ""

\* The output folder, the two artifacts, and the decision to upload: return
\* 0 when no upload is asked, 1 when no key is found.
Write ==
  /\ pc = "write"
  /\ out_dir' = TRUE
  /\ files' = Artifacts(lesson.title, lesson.text, run.collection)
  /\ stages' = Append(stages, Stage("write", TRUE))
  /\ IF ~run.upload
       THEN Return(0, "")
       ELSE IF ~HasKey(run.api_key)
         THEN Return(1, "no_key")
         ELSE pc' = "upload" /\ UNCHANGED <<rc, err>>
  /\ UNCHANGED <<hvars, browser, world, run, html, extracted, lesson, requests>>

\* An upload whose failure removes the artifacts (a mutation)
Upload_CleansUp ==
  /\ pc = "upload"
  /\ \E api_up \in BOOLEAN :
       /\ requests' = Append(requests, Request("POST", api_up))
       /\ stages' = Append(stages, Stage("upload", api_up))
       /\ IF api_up
            THEN Return(0, "") /\ UNCHANGED files
            ELSE Return(1, "upload") /\ files' = NoFiles
  /\ UNCHANGED <<hvars, browser, world, run, html, extracted, lesson, out_dir>>

\* upload_to_lingq: one POST; an HTTP error status or a transport error
\* ends the run with 1.
Upload ==
  /\ pc = "upload"
  /\ \E api_up \in BOOLEAN :
       /\ requests' = Append(requests, Request("POST", api_up))
       /\ stages' = Append(stages, Stage("upload", api_up))
       /\ IF api_up THEN Return(0, "") ELSE Return(1, "upload")
  /\ UNCHANGED <<hvars, browser, world, run, html, extracted, lesson, out_dir, files>>

Init ==
  /\ ExtractIdle
  /\ CleanIdle
  /\ NamesIdle
  /\ StoreIdle
  /\ SessionIdle
  /\ ToolsIdle
  /\ world \in Worlds
  /\ PipelineIdle

Next ==
  \/ StartMain
  \/ StartHeadless
  \/ Fetch
  \/ FetchScripted
  \/ Extract
  \/ Validate
  \/ Write
  \/ Upload

Spec == Init /\ [][Next]_vars

\* ------------------------------------------------------------------ claims
\* The texts of the text nodes that lie inside a removed element.
BoilerplateStrings(page) ==
  LET ds == Descendants(page)
  IN  UNION {{Strings(ds[i])[j] : j \in 1..Len(Strings(ds[i]))} :
               i \in {k \in 1..Len(ds) : ds[k].tag \in StripTags}}

\* The page keeps the character "z" to the text inside removed elements.
MarkerOnlyInBoilerplate(page) ==
  LET strings == Strings(page)
      boilerplate == BoilerplateStrings(page)
  IN  \A i \in 1..Len(strings) :
        "z" \in Chars(strings[i]) => strings[i] \in boilerplate

\* The cleaned texts of the article/main/section elements left after the
\* removal, as a set.
LandmarkTextSet(page) ==
  LET ts == LandmarkTexts(DecomposeRec(page)) IN {ts[i] : i \in 1..Len(ts)}

ShortLandmarks(page) == {t \in LandmarkTextSet(page) : StrLen(t) <= 400}

LongLandmarks(page) == {t \in LandmarkTextSet(page) : StrLen(t) > 400}

\* word-count + 4 x paragraph-count, as the claims state it
ClaimScore(t) == WordCount(t) + 4 * (Count(t, Newline) + 1)

Returned == xout # NoResult

\* C8: no text that lies inside a script, style, noscript, header, footer,
\* nav or aside element appears in the text of the result: a character that
\* the page has only inside such elements is not in the result text.
C8_BoilerplateExcluded ==
  (Returned /\ MarkerOnlyInBoilerplate(xin.html)) => "z" \notin Chars(xout.text)

\* C8 witness: a non-empty result whose page has a removed element nested
\* inside the article that won.
C8_Witness ==
  /\ Returned
  /\ xout.text # <<>>
  /\ LongLandmarks(xin.html) # {}
  /\ \E i \in 1..Len(Descendants(xin.html)) :
       LET d == Descendants(xin.html)[i]
       IN  /\ d.tag = "article"
           /\ \E j \in 1..Len(d.kids) : d.kids[j].tag \in StripTags
           /\ clean_text(get_text(DecomposeRec(d), <<Newline>>)) = xout.text

\* C9 as stated: the text of a landmark whose cleaned length is at most 400
\* is never the result, also when no candidate qualifies.
C9_Original ==
  Returned => xout.text \notin ShortLandmarks(xin.html)

\* C9 amended: when at least one candidate qualifies, the text of a landmark
\* whose cleaned length is at most 400 is never the result; when none
\* qualifies the result is the cleaned text of the body (of the whole
\* document when there is no body), which may be a short landmark's text.
C9_FloorEnforced ==
  Returned =>
    /\ LongLandmarks(xin.html) # {} => xout.text \notin ShortLandmarks(xin.html)
    /\ LongLandmarks(xin.html) = {} =>
         LET soup == DecomposeRec(xin.html)
             b == FirstTag(soup, "body")
         IN  xout.text =
               clean_text(get_text(IF b # NoNode THEN b ELSE soup, <<Newline>>))

\* C9 witness: a short landmark outscores the text returned.
C9_Witness ==
  /\ Returned
  /\ LongLandmarks(xin.html) # {}
  /\ \E t \in ShortLandmarks(xin.html) : ClaimScore(t) > ClaimScore(xout.text)

\* C10: with at least one qualifying candidate, the result is the text of a
\* qualifying candidate and no qualifying candidate has a strictly higher
\* score words + 4 x paragraphs.
C10_MaxScoreWins ==
  (Returned /\ LongLandmarks(xin.html) # {}) =>
    /\ xout.text \in LongLandmarks(xin.html)
    /\ \A t \in LongLandmarks(xin.html) : ClaimScore(t) <= ClaimScore(xout.text)

\* C10 witness: the winner has fewer words than a qualifying candidate that
\* lost: the paragraph count decided.
C10_Witness ==
  /\ Returned
  /\ \E t \in LongLandmarks(xin.html) :
       /\ WordCount(t) > WordCount(xout.text)
       /\ ClaimScore(t) < ClaimScore(xout.text)

\* The positions, in scan order, of the candidates that reach the maximal
\* score.
TopCandidates(cands) ==
  {i \in 1..Len(cands) : \A j \in 1..Len(cands) : cands[j].score <= cands[i].score}

C12_NonEmptyText ==
  Returned => xout.text # <<>>

\* The stripped text of the page's <title>, empty when the page has no
\* <title> or the <title> holds no text.
PageTitleText(page) ==
  LET titles == select(page, "title")
  IN  IF titles = <<>> THEN <<>> ELSE Strip(get_text(titles[1], <<>>))

\* C14: extract_content returns the text of the page <title> when that text
\* is present and not empty, and otherwise the fallback title, never an
\* empty title.
C14_TitleResolution ==
  Returned =>
    /\ PageTitleText(xin.html) # <<>> => xout.title = PageTitleText(xin.html)
    /\ PageTitleText(xin.html) = <<>> =>
         (xout.title = xin.fallback_title /\ xout.title # <<>>)

\* Some run of n consecutive characters of s lies within the set cs.
HasRun(s, cs, n) ==
  \E i \in 1..(Len(s) - n + 1) : \A j \in i..(i + n - 1) : s[j] \in cs

\* C13: the output of clean_text holds no carriage return, no two adjacent
\* space or tab characters, no three consecutive newlines and no leading or
\* trailing whitespace; clean_text applied to its own output returns it
\* unchanged.
C13_CleanTextNormalForm ==
  /\ (cout # NoString) =>
       /\ CR \notin Chars(cout)
       /\ ~HasRun(cout, Blanks, 2)
       /\ ~HasRun(cout, {Newline}, 3)
       /\ cout # <<>> => (cout[1] \notin Whitespace /\ cout[Len(cout)] \notin Whitespace)
  /\ (cagain # NoString) => cagain = cout

\* C13 witness: both calls returned, on a raw text whose carriage return
\* stood between two blanks, with the single space left inside the output.
C13_Witness ==
  /\ cagain # NoString
  /\ \E i \in 2..(Len(cin) - 1) :
       cin[i] = CR /\ cin[i - 1] \in Blanks /\ cin[i + 1] \in Blanks
  /\ Space \in Chars(cout)

\* The two URLs have the same hostname up to letter case and a leading
\* "www.".
SameHostname(u, v) == StripWww(hostname(u)) = StripWww(hostname(v))

\* C17: two URLs with the same hostname up to letter case and a leading
\* "www." derive the same config filename, whatever their scheme, port,
\* userinfo and path, in the script and in the control panel alike.
C17_FilenameFromHostname ==
  SameHostname(fin[1], fin[2]) =>
    /\ fpy # NoNames => fpy[1] = fpy[2]
    /\ fjs # NoNames => fjs[1] = fjs[2]
    /\ (fpy # NoNames /\ fjs # NoNames) => fpy = fjs

\* The operation wrote a config file.
Saved(o) ==
  \/ o.op = "save" /\ o.status = "200"
  \/ o.op = "session" /\ o.status = "written"

\* The keys of a dict.
Keys(d) == {d[i].k : i \in 1..Len(d)}

\* C16: a read of a config file that directly follows a save under the same
\* filename returns a config equal in every field to the one saved: the
\* same keys with the same values, and so no field of a config stored there
\* before; the file itself parses to the config last saved.
C16_ConfigRoundTrip ==
  /\ \A i \in 1..(Len(ops) - 1) :
       (Saved(ops[i]) /\ ops[i + 1].op = "get" /\ ops[i + 1].filename = ops[i].filename)
         => /\ ops[i + 1].status = "200"
            /\ SameDict(ops[i + 1].body, ops[i].config)
            /\ Keys(ops[i + 1].body) = Keys(ops[i].config)
  /\ (ops # <<>> /\ Saved(ops[Len(ops)])) =>
       SameDict(json_loads(disk[ops[Len(ops)].filename]), ops[Len(ops)].config)

\* C16 witness: a config with fewer fields was saved over a stored config
\* with every field, and then read back.
C16_Witness ==
  /\ Len(ops) = 3
  /\ Saved(ops[1]) /\ ops[1].config = ConfigFull
  /\ Saved(ops[2]) /\ ops[2].config = ConfigLean /\ ops[2].filename = ops[1].filename
  /\ ops[3].op = "get" /\ ops[3].filename = ops[1].filename
  /\ SameDict(ops[3].body, ConfigLean)

\* The transitions of the session controller the claims name.
SessionTransitions ==
  { <<"Loading", "AwaitingUserAction">>,
    <<"AwaitingUserAction", "ReloadRequested">>,
    <<"AwaitingUserAction", "SaveRequested">>,
    <<"AwaitingUserAction", "SessionClosed">>,
    <<"ReloadRequested", "Loading">>,
    <<"SaveRequested", "Ended">>,
    <<"SessionClosed", "Ended">> }

\* C20: the session controller moves only along Loading ->
\* AwaitingUserAction -> {ReloadRequested, SaveRequested, SessionClosed},
\* ReloadRequested back to Loading, SaveRequested and SessionClosed to the
\* end of the session; the session ends, and the config file is written,
\* from no other state.
C20_SessionTransitions ==
  /\ \A i \in 1..(Len(sess.trace) - 1) :
       <<sess.trace[i], sess.trace[i + 1]>> \in SessionTransitions
  /\ sess.wrote =>
       sess.trace[Len(sess.trace) - 1] \in {"SaveRequested", "SessionClosed"}

\* The contexts of the session that are open.
OpenContexts == {i \in 1..Len(sess.contexts) : sess.contexts[i].open}

\* C21: on every reload the current context is closed before the next one
\* is opened, the next context has the locale of the browser_language of
\* the snapshot the reload carried (the engine's default when it is empty),
\* and no two contexts of the session are open together.
C21_ReloadSwapsContext ==
  /\ Cardinality(OpenContexts) <= 1
  /\ \A i \in OpenContexts : i = Len(sess.contexts)
  /\ Len(sess.contexts) <= Len(sess.requested) + 1
  /\ \A i \in 2..Len(sess.contexts) :
       sess.contexts[i].locale = LocaleOf(sess.requested[i - 1])
  /\ (sess.state = "Loading" /\ sess.requested # <<>>) =>
       /\ OpenContexts = {}
       /\ Len(sess.contexts) = Len(sess.requested)

\* A reload changed the locale: the first context had the engine's default,
\* the second has the language the user typed, and only the second is open.
C21_Witness ==
  /\ Len(sess.contexts) = 2
  /\ sess.contexts[1].locale = PyNone
  /\ sess.contexts[2].locale = PyStr("es-ES")
  /\ OpenContexts = {2}

\* C22: after a click on Save Config & Exit the session ends, and the config
\* file then holds exactly the snapshot the overlay built at that click: the
\* URL of the page, the working selector list and the settings fields, and
\* no other field, whatever reloads, selections and keep-open saves came
\* before.
C22_SaveExitPersistsSnapshot ==
  (sess.exited # <<>>) =>
    /\ sess.state \in {"AwaitingUserAction", "SaveRequested", "Ended"}
    /\ sess.state = "AwaitingUserAction" =>
         /\ sess.window.done
         /\ sess.exited = buildConfig(sess.window.href, sess.window.form)
    /\ sess.state = "Ended" =>
         /\ sess.outcome = "returned"
         /\ sess.wrote
         /\ SameDict(json_loads(disk[SiteA]), sess.exited)

\* The session ended by Save Config & Exit after a reload, with a selector
\* added and a language typed, over a stored config that had other fields.
C22_Witness ==
  /\ sess.state = "Ended"
  /\ sess.exited # <<>>
  /\ sess.reloads = 1
  /\ Truthy(Get(sess.initial, "pre_steps"))
  /\ Get(sess.exited, "selectors") = PyList(<<PyStr("div"), PyStr("p")>>)
  /\ Get(sess.exited, "browser_language") = PyNone

\* C23: when the user closes the window without Save Config & Exit,
\* interactive_mode returns an empty result and raises nothing, the config
\* file is as the session found it, and main returns 1 without starting a
\* headless import.
C23_ClosedWindowIsSoftFailure ==
  sess.closed =>
    /\ sess.state \in {"AwaitingUserAction", "SessionClosed", "Ended"}
    /\ sess.config = <<>>
    /\ disk[SiteA] = sess.found
    /\ sess.state = "Ended" => (sess.outcome = "returned" /\ ~sess.wrote)
    /\ sess.main.returned => (sess.main.rc = 1 /\ ~sess.main.headless)

\* C24: every context an iteration of the session loop created has been
\* closed by the time the next iteration starts and by the time
\* interactive_mode returns or raises, whichever way the iteration ended.
C24_ContextsAlwaysClosed ==
  (sess.state \in {"Loading", "Ended"}) => OpenContexts = {}

\* The overlay was injected in time in a context with these page events:
\* not before the last pre-step, right after the load of the current URL,
\* and right after every later load.
InjectedInTime(events) ==
  LET n == Len(events)
      Goto == {i \in 1..n : events[i] = "goto"}
  IN  /\ \A i, j \in 1..n : (events[i] = "inject" /\ events[j] = "prestep") => j < i
      /\ \A i \in 1..n : (events[i] = "inject") => \E g \in Goto : g < i
      /\ \A i \in 1..n :
           (events[i] = "domcontentloaded" /\ \E g \in Goto : g < i) =>
             (i < n /\ events[i + 1] = "inject")
      /\ \A i \in 1..n :
           (events[i] = "navigate" \/ (events[i] = "goto" /\ i < n)) =>
             (i < n /\ events[i + 1] = "domcontentloaded")

Stored == IF sess.found \in {<<>>, NoFile} THEN <<>> ELSE json_loads(sess.found)

\* The url of the stored config.
StoredUrl == IF Get(Stored, "url").t = "str" THEN Get(Stored, "url").v[1] ELSE ""

\* The session went from its start to Save Config & Exit with nothing
\* selected, typed, reloaded or navigated, and has ended.
SavedUnedited ==
  /\ sess.trace = <<"Loading", "AwaitingUserAction", "SaveRequested", "Ended">>
  /\ ~sess.edited
  /\ sess.navs = 0

\* C26: a session opened on a stored config for the same URL restores
\* every field of it, so that Save Config & Exit without an edit leaves a
\* config file with every stored field at its stored value: selectors,
\* api_key, language, browser_language, title, collection_id, pre_steps,
\* source_lang, accept_language.
C26_SameUrlRestoresAll ==
  (sess.found # NoFile /\ sess.state # "Idle" /\ StoredUrl = sess.start) =>
    /\ sess.initial = Stored
    /\ SavedUnedited =>
         \A k \in Keys(Stored) :
           Get(json_loads(disk[SiteA]), k) = Get(Stored, k)

\* The sidebar of a session that took over nothing but the stored key.
KeyOnlyForm ==
  [NoForm EXCEPT !.api_key = IF Truthy(Get(Stored, "api_key"))
                               THEN Get(Stored, "api_key").v[1] ELSE ""]

\* A session that carried over the stored api_key and nothing else: in its
\* initial config, in the locale and the pre-steps of its first context, in
\* the sidebar it shows and in the config it saves.
OnlyKeyCarried ==
  /\ sess.initial = IF Truthy(Get(Stored, "api_key"))
                      THEN <<Item("api_key", Get(Stored, "api_key"))>> ELSE <<>>
  /\ sess.contexts # <<>> =>
       /\ sess.contexts[1].locale = PyNone
       /\ \A i \in 1..Len(sess.contexts[1].events) :
            sess.contexts[1].events[i] # "prestep"
  /\ (sess.state = "AwaitingUserAction" /\ sess.window.active /\ ~sess.edited
        /\ sess.reloads = 0) =>
       sess.window.form = KeyOnlyForm
  /\ SavedUnedited =>
       SameDict(json_loads(disk[SiteA]), buildConfig(sess.start, KeyOnlyForm))

\* C27 as the spec states it: a session opened on a stored config whose
\* url differs from the session URL carries over the api_key and nothing
\* else.
C27_Original ==
  (sess.found # NoFile /\ sess.state # "Idle" /\ StoredUrl # sess.start) =>
    OnlyKeyCarried

\* C27: a session opened on a stored config whose url differs from the
\* session URL by more than trailing slashes starts with the stored api_key
\* and nothing else: no selector, setting or pre-step of the stored config
\* is applied to, run in, or saved by the session.
C27_OtherUrlCarriesKeyOnly ==
  (sess.found # NoFile /\ sess.state # "Idle"
     /\ RStripSlash(StoredUrl) # RStripSlash(sess.start)) =>
    OnlyKeyCarried

\* A session on another site than the stored config's, which had
\* selectors, settings and pre-steps, ended by an unedited Save Config &
\* Exit with the stored key in the file.
C27_Witness ==
  /\ sess.start = UrlB
  /\ Truthy(Get(Stored, "pre_steps"))
  /\ Truthy(Get(Stored, "browser_language"))
  /\ SavedUnedited
  /\ Get(json_loads(disk[SiteA]), "api_key") = PyStr("k")

\* The overlay reported done or reload-requested, or the window is closed.
UserSignal == sess.window.done \/ sess.window.reload \/ ~sess.window.open

\* C28: the controller leaves AwaitingUserAction only when the overlay
\* reported done or reload-requested or the window was closed, however long
\* that takes; and once there is such a signal it goes on to the end of the
\* session or to Loading again.
C28_WaitsForUser ==
  /\ [][(sess.state = "AwaitingUserAction" /\ sess.state' # "AwaitingUserAction")
          => UserSignal]_vars
  /\ (sess.state = "AwaitingUserAction" /\ UserSignal)
       ~> (sess.state \in {"Loading", "Ended"})

\* The controller waited twice: it was woken by a reload request, loaded the
\* page again, and was woken by the closing of the window.
C28_Witness ==
  sess.trace = <<"Loading", "AwaitingUserAction", "ReloadRequested", "Loading",
                 "AwaitingUserAction", "SessionClosed", "Ended">>

\* The files of the directory whose name is lingq_<something>.json.
ConfigNames ==
  {p \in DOMAIN disk : disk[p] # NoFile /\ Head(p) = "lingq_" /\ p[Len(p)] = ".json"}

\* A headless start without --config has ended.
AutoDetected == cli.pc = "done" /\ cli.config_arg = <<>>

\* With zero or several config files the start returned 1, read no config
\* and did not call the pipeline; when it called the pipeline, it was with
\* the one config file's content.
AutoDetectOutcome ==
  /\ Cardinality(ConfigNames) # 1 =>
       (cli.rc = 1 /\ cli.read = <<>> /\ ~cli.ran)
  /\ cli.ran =>
       /\ ConfigNames = {cli.config_path}
       /\ cli.read = <<cli.config_path>>
       /\ SameDict(cli.config, json_loads(disk[cli.config_path]))

\* C29 as the spec states it: in headless mode without --config the
\* pipeline runs if and only if exactly one lingq_*.json file exists.
C29_Original ==
  AutoDetected =>
    /\ cli.ran <=> Cardinality(ConfigNames) = 1
    /\ AutoDetectOutcome

\* C29: in headless mode without --config the pipeline runs if and only if
\* exactly one lingq_*.json file exists in the current directory and that
\* file holds a JSON object, and then with that file; with zero or several
\* such files main returns 1 without reading a config or starting the
\* pipeline, and with one file that is no JSON it returns 1 as well.
C29_AutoDetectsSingleConfig ==
  AutoDetected =>
    /\ cli.ran <=> (Cardinality(ConfigNames) = 1
                     /\ \A p \in ConfigNames : Decodes(disk[p]))
    /\ ~cli.ran => cli.rc = 1
    /\ AutoDetectOutcome

\* The pipeline was started on the one config file of a directory that
\* holds another JSON file as well.
C29_Witness ==
  /\ AutoDetected
  /\ cli.ran
  /\ disk[Notes] # NoFile
  /\ cli.config_path = SiteB

\* A dry run has been started.
DryRun == audio.pc # "idle" /\ audio.args.dry_run

\* The directory of the batch exists and holds at least one *.mp3 file.
HasMp3 == audio.dir.exists /\ \E p \in audio.dir.names : p.ext = ".mp3"

\* C30 as the spec states it: a dry run transcribes nothing, uploads
\* nothing, needs no API key and returns 0, whatever the directory holds.
C30_Original ==
  DryRun =>
    /\ audio.log = <<>>
    /\ audio.err # "no_key"
    /\ audio.pc = "done" => audio.rc = 0

\* C30: a dry run transcribes no file, uploads no file and needs no API
\* key, whatever the directory holds and whatever the other flags are; it
\* returns 0 when the directory exists and holds at least one MP3 file, and
\* 1 when the directory is missing or holds no MP3 file.
C30_DryRunTouchesNothing ==
  DryRun =>
    /\ audio.log = <<>>
    /\ audio.err # "no_key"
    /\ audio.pc = "done" => audio.rc = (IF HasMp3 THEN 0 ELSE 1)
    /\ (audio.pc = "done" /\ HasMp3) => Len(audio.titles) = Len(audio.mp3_files)

\* A dry run with --transcribe and without an API key listed three files
\* and returned 0.
C30_Witness ==
  /\ DryRun
  /\ audio.pc = "done"
  /\ audio.args.transcribe
  /\ audio.args.api_key = ""
  /\ Len(audio.titles) = 3
  /\ audio.rc = 0

\* ------------------------------------------------------- control panel claims
\* The clients that stopped polling: their last response said done.
Stopped == {p \in DOMAIN jobs.polls : jobs.polls[p].stopped}

\* Whether a sequence is the beginning of another.
IsPrefix(head, whole) ==
  Len(head) <= Len(whole) /\ head = SubSeq(whole, 1, Len(head))

\* C31: a client that polls with the number of lines it has and stops at
\* the first response with done = true has every line of the job, once and
\* in the order of the output.
C31_PollerGetsEveryLine ==
  \A p \in Stopped : jobs.polls[p].received = jobs.table[Polled].lines

\* What every client has are the first lines of the job, once and in order.
ReceivedIsPrefix ==
  \A p \in DOMAIN jobs.polls : IsPrefix(jobs.polls[p].received, jobs.table[Polled].lines)

\* C32: a response that says done = true carries the exit code of the job,
\* never null; done stays true and the lines stored never change.
C32_DoneCarriesExitCode ==
  /\ [](\A p \in Stopped :
         /\ jobs.polls[p].rc # PyNone
         /\ jobs.threads[Polled].pc = "end" => jobs.polls[p].rc = jobs.table[Polled].rc)
  /\ [][/\ jobs.table[Polled].done => jobs'.table[Polled].done
        /\ IsPrefix(jobs.table[Polled].lines, jobs'.table[Polled].lines)]_vars

\* done stays true and the lines stored are only ever added to.
JobOnlyGrows ==
  [][/\ jobs.table[Polled].done => jobs'.table[Polled].done
     /\ IsPrefix(jobs.table[Polled].lines, jobs'.table[Polled].lines)]_vars

\* The request an endpoint answered last, when the step was a request.
Answered == Len(ops') = Len(ops) + 1

\* Whether a filename has the form lingq_<slug>.json and nothing more.
MatchesPattern(filename) ==
  /\ Len(filename) >= 3
  /\ filename[1] = "lingq_"
  /\ filename[Len(filename)] = ".json"
  /\ filename[2] \in SlugChars
  /\ \A i \in 3..(Len(filename) - 1) : filename[i] \in SlugChars \cup {"-"}

\* The request was refused and nothing was read, written, deleted or
\* started.
Refused ==
  LET op == ops'[Len(ops')]
  IN  /\ op.status = "400"
      /\ op.body = <<>>
      /\ disk' = disk
      /\ jobs' = jobs

\* C33: get, save, delete, launch and run answer a filename that is not of
\* the form lingq_<slug>.json with an error and touch no file and start no
\* job.
C33_BadFilenameRejected ==
  [][(Answered /\ ~MatchesPattern(ops'[Len(ops')].filename)) => Refused]_vars

\* The same for the filenames that _safe refuses.
UnsafeFilenameRejected ==
  [][(Answered /\ ~_safe(ops'[Len(ops')].filename)) => Refused]_vars

\* The elements of the page the overlay is on.
PageElems == 1..Len(picker.dom)

\* C34: for every element that is not shown selected and every selector
\* list, two clicks on the element leave the list as it was and the element
\* not shown selected.
C34_ClickTwiceRestores ==
  \A el \in PageElems :
    el \notin picker.shown =>
      LET twice == ClickOn(ClickOn(picker, el), el)
      IN  /\ twice.selectors = picker.selectors
          /\ el \notin twice.shown

\* The same for the elements whose generated path is not in the list.
TogglesWhenPathIsNew ==
  \A el \in PageElems :
    (el \notin picker.shown /\ IndexOf(picker.selectors, genSel(picker.dom, el)) = 0) =>
      LET twice == ClickOn(ClickOn(picker, el), el)
      IN  /\ twice.selectors = picker.selectors
          /\ el \notin twice.shown

RECURSIVE Ancestor(_, _, _)
\* The k-th ancestor of an element, the element itself for 0.
Ancestor(dom, el, k) ==
  IF k = 0 \/ el = 0 THEN el ELSE Ancestor(dom, dom[el].parent, k - 1)

\* Whether a path has the form the generator is to give for an element.
WellFormedPath(dom, el, path) ==
  IF dom[el].id # "" THEN path = <<Step("id", "", dom[el].id, <<>>, 0)>>
  ELSE
    /\ path # <<>>
    /\ \A i \in 1..Len(path) :
         LET step == path[i]
             node == Ancestor(dom, el, Len(path) - i)
         IN  /\ node # 0
             /\ IF i = 1 /\ step.kind # "tag"
                  THEN \/ step.kind = "body" /\ node = 2
                       \/ step.kind = "id" /\ dom[node].id = step.id /\ step.id # ""
                  ELSE /\ i > 1 \/ node = el
                       /\ step.kind = "tag"
                       /\ dom[node].id = ""
                       /\ step.tag = dom[node].tag
                       /\ Len(step.cls) <= 3
                       /\ \A k \in 1..Len(step.cls) :
                            /\ ~Internal(step.cls[k])
                            /\ \E m \in 1..Len(dom[node].classes) :
                                 dom[node].classes[m] = step.cls[k]
                       /\ step.nth # 0 => step.cls = <<>> /\ step.nth = ChildIndex(dom, node)
    /\ path[1].kind \in {"body", "id"}

\* C35 as the spec states it: for every element of the page the generated
\* path has the form described and matches the element.
C35_Original ==
  picker.on =>
    \A el \in PageElems :
      LET path == genSel(picker.dom, el)
      IN  WellFormedPath(picker.dom, el, path) /\ Matches(picker.dom, el, path)

\* C35: for the body and every element below it the generated path is '#id'
\* alone when the element has an id, else a child chain from the body or
\* from the nearest ancestor with an id down to the element, each step with
\* at most 3 classes, none of them internal, an nth-child index only on
\* steps without class, and the path matches the element; for a root
\* element without id the path is empty.
C35_PathMatchesElement ==
  picker.on =>
    \A el \in PageElems :
      LET path == genSel(picker.dom, el)
      IN  IF el = 1 /\ picker.dom[el].id = ""
            THEN path = <<>>
            ELSE WellFormedPath(picker.dom, el, path) /\ Matches(picker.dom, el, path)

\* A click has put a path with an nth-child index at its end into the list,
\* and one that starts at an id.
C35_Witness ==
  /\ picker.status = "Selected"
  /\ \E i \in 1..Len(picker.selectors) :
       LET path == picker.selectors[i]
       IN  Len(path) = 3 /\ path[3].nth = 2 /\ path[1].kind = "body"

\* C37: whenever a click makes the overlay stop showing an element as
\* selected, no selector of the list afterwards matches that element.
C37_DeselectedNotInList ==
  [][\A el \in PageElems :
       (el \in picker.shown /\ el \notin picker'.shown) =>
         \A i \in 1..Len(picker'.selectors) :
           ~Matches(picker.dom, el, picker'.selectors[i])]_vars

\* After a click that deselects an element, the element's own generated
\* path is not in the list.
OwnPathLeavesList ==
  [][\A el \in PageElems :
       (picker'.status = "Deselected" /\ el \in picker.shown /\ picker' = ClickOn(picker, el)) =>
         IndexOf(picker'.selectors, genSel(picker.dom, el)) = 0]_vars

\* The number of pre-steps a context ran before its navigation to the
\* target URL.
StepsBeforeGoto(events) ==
  LET goto == CHOOSE i \in 1..Len(events) : events[i] = "goto"
  IN  Cardinality({i \in 1..goto : events[i] = "prestep"})

\* C36: in every entry to Loading, the first and those after a reload, the
\* pre-steps of the config the session was opened with are run before the
\* navigation to the target URL, and a reload leaves them in the working
\* config.
C36_PreStepsOnEveryLoad ==
  /\ \A c \in 1..Len(sess.contexts) :
       LET events == sess.contexts[c].events
       IN  (\E i \in 1..Len(events) : events[i] = "goto") =>
             StepsBeforeGoto(events) = Len(PreStepsOf(sess.initial))
  /\ sess.state \in {"Loading", "AwaitingUserAction"} =>
       PreStepsOf(sess.working) = PreStepsOf(sess.initial)

\* The first entry to Loading runs every pre-step of the config the
\* session was opened with before the navigation.
PreStepsOnFirstLoad ==
  Len(sess.contexts) >= 1 =>
    LET events == sess.contexts[1].events
    IN  (\E i \in 1..Len(events) : events[i] = "goto") =>
          StepsBeforeGoto(events) = Len(PreStepsOf(sess.initial))

\* The step was a press of Launch or Run: a save and a start.
Pressed == Len(ops') = Len(ops) + 2

\* The fields of a config the control panel's form does not show.
HiddenFields == {"pre_steps", "source_lang", "accept_language"}

\* C38: a press of Launch or Run for an existing config leaves the fields
\* the form does not show as they were in the file, so the job reads them
\* as they were.
C38_HiddenFieldsKept ==
  [][Pressed =>
       LET f == jobs.page.currentFile
       IN  \A k \in HiddenFields :
             Get(json_loads(disk'[f]), k) = Get(json_loads(disk[f]), k)]_vars

\* A press of Launch or Run writes the form's config, and nothing else,
\* under the current file before the job is started.
PressWritesForm ==
  [][Pressed =>
       json_loads(disk'[jobs.page.currentFile]) = panelConfig(jobs.page.form)]_vars

\* A run that is no dry run went through its loop and the process has
\* exited.
BatchOver ==
  /\ audio.pc = "exited"
  /\ ~audio.args.dry_run
  /\ audio.err = ""

\* The files of the batch on which a transcription or an upload failed.
FailedFiles ==
  SelectSeq(audio.mp3_files,
            LAMBDA p : \E i \in 1..Len(audio.log) : audio.log[i].file = p /\ ~audio.log[i].ok)

\* The first operation of the run on each file, in the order of the log.
FirstOps ==
  SelectSeq(audio.log,
            LAMBDA e : e.op = (IF audio.args.transcribe THEN "transcribe" ELSE "upload"))

\* Every MP3 file was attempted once, in natural sort order; no file whose
\* transcription failed was uploaded; failures is the number of failed
\* files.
BatchAttemptsAll ==
  /\ SortedBy(audio.mp3_files, GlobMp3(audio.dir.names))
  /\ [i \in 1..Len(FirstOps) |-> FirstOps[i].file] = audio.mp3_files
  /\ \A i, j \in 1..Len(audio.log) :
       (i # j /\ audio.log[i].file = audio.log[j].file) =>
         /\ audio.log[i].op # audio.log[j].op
         /\ audio.log[i].op = "transcribe" => audio.log[i].ok
  /\ audio.rc = FilesIn(FailedFiles)

\* C39: in a batch that is no dry run every MP3 file is attempted once, in
\* natural sort order, whatever failed before; a file whose transcription
\* failed is not uploaded; every failed file is counted once; and the exit
\* status of the process is the number of failed files, so it is not 0
\* when a file failed.
C39_ExitStatusCountsFailures ==
  BatchOver =>
    /\ BatchAttemptsAll
    /\ audio.status = FilesIn(FailedFiles)
    /\ FailedFiles # <<>> => audio.status # 0

\* The same with the exit status being the low byte of the number of
\* failed files.
BatchCountsFailures ==
  BatchOver =>
    /\ BatchAttemptsAll
    /\ audio.status = FilesIn(FailedFiles) % 256

\* ---------------------------------------------------------- pipeline claims
Done == pc = "done"

\* The stages a run entered, as names.
StageNames == [i \in 1..Len(stages) |-> stages[i].stage]

StageOrder == <<"fetch", "extract", "validate", "write", "upload">>

\* The requests of one kind a run issued.
Issued(kind) == {i \in 1..Len(requests) : requests[i].kind = kind}

\* The text the selector path is specified to return: for each selector in
\* list order, the cleaned text of the elements it matches in document
\* order, joined by paragraph breaks.
SelectorText(page, selectors) ==
  LET soup == DecomposeRec(page)
      parts == Flatten([s \in 1..Len(selectors) |->
                 LET nodes == select(soup, selectors[s])
                 IN  [i \in 1..Len(nodes) |->
                       clean_text(get_text(nodes[i], <<Newline>>))]])
  IN  clean_text(Join(parts, <<Newline, Newline>>))

\* The text a run is specified to extract from the page it is served.
SpecifiedText ==
  IF run.selectors = <<>>
    THEN extract_content(world.page, run.title_seed).text
    ELSE SelectorText(world.page, run.selectors)

\* C1: a headless run without upload, on a config with a non-empty url (and
\* no source_lang), whose page is served and holds at least min_words words,
\* returns 0 with the text file and the payload written under the same base
\* name.
C1_HeadlessRunSucceeds ==
  (/\ Done
   /\ run.entry = "headless"
   /\ ~run.upload
   /\ run.url # ""
   /\ run.source_lang = ""
   /\ world.up
   /\ \A i \in 1..Len(requests) : requests[i].ok
   /\ WordCount(SpecifiedText) >= run.min_words)
  => /\ rc = 0
     /\ files.txt.name # <<>>
     /\ files.payload.name # <<>>
     /\ \E base \in {BaseName(lesson.title)} :
          /\ files.txt.name = base \o <<".txt">>
          /\ files.payload.name = base \o <<".payload.json">>

\* C2: an extraction invoked with a non-empty selector list returns the
\* concatenation, in selector order then document order, of the cleaned
\* texts of the matched elements.
C2_SelectorPath ==
  (/\ run.entry = "headless"
   /\ run.selectors # <<>>
   /\ "extract" \in {StageNames[i] : i \in 1..Len(stages)})
  => /\ extracted # NoResult
     /\ extracted.text = SelectorText(html, run.selectors)

\* C15: a headless run on a config with a url and a source_lang proceeds
\* to the fetch, of the url with source_lang appended as a query parameter.
C15_SourceLangFetched ==
  (Done /\ run.entry = "headless" /\ run.url # "" /\ run.source_lang # "") =>
    (stages # <<>> /\ stages[1].stage = "fetch" /\ err # "AttributeError")

\* The six pre-step actions the claims name, and the page operation of each.
Supported ==
  {<<"goto">>, <<"fill">>, <<"select">>, <<"click">>, <<"wait_for_load">>, <<"wait">>}

OperationOf(action) ==
  CASE action = <<"goto">> -> "goto"
    [] action = <<"fill">> -> "fill"
    [] action = <<"select">> -> "select_option"
    [] action = <<"click">> -> "click"
    [] action = <<"wait_for_load">> -> "wait_for_load_state"
    [] action = <<"wait">> -> "wait_for_timeout"

\* The pre-steps of the run whose action is none of the six.
UnknownSteps ==
  SelectSeq(run.pre_steps, LAMBDA st : Strip(st.action) \notin Supported)

\* The pre-steps of the run that operate on the page: those with one of the
\* six actions, a goto without a url excepted.
OperatingSteps ==
  SelectSeq(run.pre_steps,
    LAMBDA st : /\ Strip(st.action) \in Supported
                /\ Strip(st.action) = <<"goto">> => Strip(st.url) # <<>>)

\* The operations the scripted fetch performed on the page, by name.
Performed == [i \in 1..Len(browser.ops) |-> browser.ops[i].op]

\* The scripted fetch navigated to the target URL.
Navigated ==
  /\ browser.ops # <<>>
  /\ browser.ops[Len(browser.ops)].op = "goto"
  /\ browser.ops[Len(browser.ops)].target = <<run.url>>
  /\ Len(browser.ops) = Len(OperatingSteps) + 1

\* A pre-step of the scripted fetch failed: an operation failed that is not
\* the navigation after the last pre-step.
StepFailed ==
  /\ browser.launched
  /\ \E i \in 1..Len(browser.ops) : ~browser.ops[i].ok /\ i <= Len(OperatingSteps)

\* C18: in a scripted fetch none of whose page operations failed, each
\* pre-step with an unknown action gave one warning and no page operation,
\* and the page operations are those of all the other pre-steps, in list
\* order, followed by the navigation to the target URL.
C18_UnknownStepSkipped ==
  (browser.launched /\ \A i \in 1..Len(browser.ops) : browser.ops[i].ok) =>
    /\ browser.warnings = [i \in 1..Len(UnknownSteps) |-> Strip(UnknownSteps[i].action)]
    /\ Performed =
         [i \in 1..Len(OperatingSteps) |-> OperationOf(Strip(OperatingSteps[i].action))]
           \o <<"goto">>
    /\ Navigated
    /\ html # NoNode

\* C18 witness: a scripted fetch returned the page after a list in which an
\* unknown action stands before two steps that operated on the page.
C18_Witness ==
  /\ browser.launched
  /\ html # NoNode
  /\ \E i \in 1..(Len(run.pre_steps) - 2) :
       /\ Strip(run.pre_steps[i].action) \notin Supported
       /\ Strip(run.pre_steps[i + 1].action) \in Supported
       /\ Strip(run.pre_steps[i + 2].action) \in Supported
  /\ Len(browser.warnings) = 1
  /\ Len(browser.ops) = 5

\* C19: when a pre-step of the scripted fetch fails, the failed operation is
\* the last one performed, the target URL is not navigated to, no HTML is
\* returned, the browser is closed, and the run has ended with 1, no folder
\* and no artifact.
C19_FailedStepIsFatal ==
  StepFailed =>
    /\ \A i \in 1..(Len(browser.ops) - 1) : browser.ops[i].ok
    /\ Len(browser.ops) <= Len(OperatingSteps)
    /\ \A i \in 1..Len(browser.ops) :
         browser.ops[i].op = OperationOf(Strip(OperatingSteps[i].action))
    /\ ~Navigated
    /\ html = NoNode
    /\ extracted = NoResult
    /\ browser.closed
    /\ Done /\ rc = 1
    /\ files = NoFiles /\ ~out_dir

\* C19 witness: the first pre-step of a list failed on a selector that
\* matches nothing, with the site up and a step left to run.
C19_Witness ==
  /\ StepFailed
  /\ world.up
  /\ Len(browser.ops) < Len(OperatingSteps)
  /\ browser.closed
  /\ rc = 1

\* C3: after a successful fetch and extraction, the run fails with the
\* too-short error exactly when the text has fewer than min_words words; a
\* text of exactly min_words words passes validation.
C3_WordCountGate ==
  (Done /\ extracted # NoResult) =>
    LET words == WordCount(extracted.text)
    IN  /\ words < run.min_words => (rc = 1 /\ err = "too_short")
        /\ words >= run.min_words =>
             (err # "too_short" /\ Stage("validate", TRUE) \in {stages[i] : i \in 1..Len(stages)})

\* C3 witness: a text of exactly min_words words passed, in a run that
\* returned 0.
C3_Witness ==
  /\ Done
  /\ extracted # NoResult
  /\ run.min_words > 0
  /\ WordCount(extracted.text) = run.min_words
  /\ rc = 0

\* C4: a run that failed in the fetch, in the extraction or at the
\* word-count validation has created no folder, written no artifact and
\* issued no upload POST.
C4_NoArtifactOnFailure ==
  (Done /\ err \in {"fetch", "too_short"}) =>
    /\ rc = 1
    /\ files = NoFiles
    /\ ~out_dir
    /\ Issued("POST") = {}

\* C4 witness: a run with upload requested and a key at hand failed the
\* word-count validation after a successful fetch.
C4_Witness ==
  /\ Done
  /\ err = "too_short"
  /\ run.upload
  /\ run.api_key # ""
  /\ requests = <<Request("GET", TRUE)>>
  /\ files = NoFiles

\* C5 as stated: with upload requested and no key resolvable, the run that
\* the missing key aborts has issued no request of any kind, page fetch
\* included.
C5_Original ==
  (Done /\ run.upload /\ run.api_key = "" /\ err = "no_key") =>
    (rc # 0 /\ requests = <<>>)

\* C5 amended: with upload requested and no key resolvable, the run ends in
\* failure and no upload POST is issued; the page fetch may have been
\* issued, and the artifacts written, before the missing key is found.
C5_NoPostWithoutKey ==
  (Done /\ run.upload /\ run.api_key = "") => (rc # 0 /\ Issued("POST") = {})

\* C5 witness: the missing key ended a run that had fetched the page and
\* written both artifacts.
C5_Witness ==
  /\ Done
  /\ run.upload
  /\ run.api_key = ""
  /\ rc = 1
  /\ err = "no_key"
  /\ requests = <<Request("GET", TRUE)>>
  /\ files # NoFiles

\* C6: when the upload POST fails the run returns 1 and both artifacts
\* written earlier in the run are still there with the content written.
C6_ArtifactsSurviveUploadFailure ==
  (Done /\ Request("POST", FALSE) \in {requests[i] : i \in 1..Len(requests)}) =>
    /\ rc = 1
    /\ files.txt.name = BaseName(lesson.title) \o <<".txt">>
    /\ files.txt.content = lesson.text \o <<Newline>>
    /\ files.payload.name = BaseName(lesson.title) \o <<".payload.json">>
    /\ files.payload.content.title = lesson.title
    /\ files.payload.content.text = lesson.text

\* C6 witness: a run ended by a failed upload POST.
C6_Witness ==
  /\ Done
  /\ err = "upload"
  /\ requests = <<Request("GET", TRUE), Request("POST", FALSE)>>

\* C7: the stages run in the order fetch, extract, validate, write, upload,
\* each at most once, a stage only after every earlier one succeeded; at
\* most one page fetch and one upload POST are issued, and the folder and
\* the artifacts appear only with the write stage.
C7_StagesInOrder ==
  /\ Len(stages) <= Len(StageOrder)
  /\ \A i \in 1..Len(stages) : stages[i].stage = StageOrder[i]
  /\ \A i \in 1..(Len(stages) - 1) : stages[i].ok
  /\ Cardinality(Issued("GET") \cup Issued("BROWSER")) <= 1
  /\ Cardinality(Issued("POST")) <= 1
  /\ Len(requests) <= Len(stages)
  /\ (Issued("POST") # {}) => (Len(stages) = 5)
  /\ (out_dir \/ files # NoFiles) => (Len(stages) >= 4)

\* C7 witness: a run went through all five stages.
C7_Witness ==
  /\ Done
  /\ StageNames = StageOrder
  /\ rc = 0

====
